---------------------------- MODULE Spec2Model ----------------------------
(***************************************************************************)
(* A model of the meeting-assistant backend (backend/app): the LLM         *)
(* service with its provider adapters and retry policy, the summary and     *)
(* action-item extraction services, and the storage session they write     *)
(* through.                                                                *)
(*                                                                         *)
(* Conventions.                                                            *)
(*  - Optional values are None or Some(v).                                 *)
(*  - Temperatures are counted in tenths: 3 is 0.3 and 7 is 0.7.           *)
(*  - A text is a sequence of JSON tokens (see the JSON section); the      *)
(*    characters inside a string literal are not modelled.                 *)
(*  - Exceptions are named by their class.                                 *)
(***************************************************************************)
EXTENDS Integers, Sequences, FiniteSets, TLC

VARIABLES
    settings,       \* app.core.config.settings
    pc,             \* pc[r]: where request r stands
    call,           \* call[r]: the operation request r runs and its arguments
    llmArgs,        \* llmArgs[r]: arguments of the LLMService call in progress
    kwargs,         \* kwargs[r]: what the adapter hands to the backend
    attempt_number, \* attempt_number[r]: tenacity's attempt counter
    attempts,       \* attempts[r]: outcome of each backend call of this call
    slept,          \* slept[r]: the delays waited between the attempts
    ret,            \* ret[r]: what the innermost finished call returned or raised
    dbMeetings,     \* the committed rows of table meetings, by id
    dbItems,        \* the committed rows of table action_items, in id order
    obj,            \* obj[r]: the Meeting object request r's session has loaded
    txMeetings,     \* txMeetings[r]: columns r's transaction has written, uncommitted
    txItems,        \* txItems[r]: action items r's transaction has inserted, uncommitted
    txState,        \* txState[r]: "active", or "deactive" after a failed flush
    pre,            \* pre[r]: the committed tables when r's call began, and the
                    \* value generate_json gave the service (for the properties)
    _instance,      \* LLMService._instance is not None
    _provider,      \* LLMService._instance._provider: 0 for None, else the
                    \* position of the adapter in adapters
    adapters        \* the adapters constructed so far, by class, in order

vars == <<settings, pc, call, llmArgs, kwargs, attempt_number, attempts, slept, ret,
          dbMeetings, dbItems, obj, txMeetings, txItems, txState, pre,
          _instance, _provider, adapters>>

procVars == <<settings, _instance, _provider, adapters>>
singletonVars == <<_instance, _provider, adapters>>

llmVars == <<llmArgs, kwargs, attempt_number, attempts, slept>>
dbVars == <<dbMeetings, dbItems>>
sessVars == <<obj, txMeetings, txItems, txState>>

-----------------------------------------------------------------------------
(* Bounds of the model *)

MaxRequests == 2
MaxAttemptsLLM == 8
MaxAttempts == 3
MaxMeetings == 1
MaxItems == 2
MaxMessages == 3

Requests == 1..MaxRequests
MeetingIds == 1..MaxMeetings

-----------------------------------------------------------------------------
(* Optional values *)

None == [none |-> TRUE]
Some(v) == [some |-> v]
IsNone(x) == "none" \in DOMAIN x

-----------------------------------------------------------------------------
(* Configuration: app/core/config.py *)

LLM_MAX_RETRIES == 3
LLM_MAX_TOKENS == 4096
LLM_TEMPERATURE == 7

TemperatureChoices == {LLM_TEMPERATURE, 10}
MaxTokensChoices == {LLM_MAX_TOKENS}

\* Names are sequences of characters, so that lower() can be applied.
NAME_anthropic == <<"a", "n", "t", "h", "r", "o", "p", "i", "c">>
NAME_openai == <<"o", "p", "e", "n", "a", "i">>
NAME_OpenAI == <<"O", "p", "e", "n", "A", "I">>
NAME_azure_openai == <<"a", "z", "u", "r", "e", "_", "o", "p", "e", "n", "a", "i">>
NAME_Gemini == <<"G", "e", "m", "i", "n", "i">>
NAME_empty == <<>>

\* LLM_PROVIDER = "azure_openai", LLM_API_KEY = "", AZURE_OPENAI_ENDPOINT = "https://..."
LLM_PROVIDER == NAME_azure_openai
LLM_API_KEY == ""
AZURE_OPENAI_ENDPOINT == Some("https://gateway")

ProviderNames ==
    {NAME_anthropic, NAME_openai, NAME_OpenAI, NAME_azure_openai, NAME_Gemini, NAME_empty}
ApiKeys == {LLM_API_KEY, "sk-key"}
Endpoints == {None, Some(""), AZURE_OPENAI_ENDPOINT}

\* The settings of a process: the retry limit up to maxAttempts, the provider
\* name among providers, the key among keys, the endpoint among endpoints.
Settings(maxAttempts, providers, keys, endpoints) ==
    [LLM_MAX_RETRIES : 1..maxAttempts,
     LLM_MAX_TOKENS : MaxTokensChoices,
     LLM_TEMPERATURE : TemperatureChoices,
     LLM_PROVIDER : providers,
     LLM_API_KEY : keys,
     AZURE_OPENAI_ENDPOINT : endpoints]

-----------------------------------------------------------------------------
(* JSON texts and values.                                                  *)
(* A text is a sequence of tokens; json.loads is a recursive-descent       *)
(* parser over them and json.dumps writes a list of strings back.          *)

P(c) == [k |-> "punct", c |-> c]
S(s) == [k |-> "string", s |-> s]
N(n) == [k |-> "number", n |-> n]
W(w) == [k |-> "word", w |-> w]
J(x) == [k |-> "junk", x |-> x]

JStr(s) == [t |-> "str", s |-> s]
JInt(n) == [t |-> "int", n |-> n]
JNull == [t |-> "NoneType"]
JList(items) == [t |-> "list", items |-> items]
JDict(keys, vals) == [t |-> "dict", keys |-> keys, vals |-> vals]

JFail == [ok |-> FALSE]
JOk(v, n) == [ok |-> TRUE, val |-> v, next |-> n]

IsP(toks, i, c) == i <= Len(toks) /\ toks[i].k = "punct" /\ toks[i].c = c

RECURSIVE parse_value(_, _), parse_array(_, _, _), parse_object(_, _, _, _)

parse_value(toks, i) ==
    IF i > Len(toks) THEN JFail
    ELSE LET tk == toks[i] IN
         CASE tk.k = "string" -> JOk(JStr(tk.s), i + 1)
           [] tk.k = "number" -> JOk(JInt(tk.n), i + 1)
           [] tk.k = "word" -> IF tk.w = "null" THEN JOk(JNull, i + 1) ELSE JFail
           [] IsP(toks, i, "[") ->
                IF IsP(toks, i + 1, "]") THEN JOk(JList(<<>>), i + 2)
                ELSE parse_array(toks, i + 1, <<>>)
           [] IsP(toks, i, "{") ->
                IF IsP(toks, i + 1, "}") THEN JOk(JDict(<<>>, <<>>), i + 2)
                ELSE parse_object(toks, i + 1, <<>>, <<>>)
           [] OTHER -> JFail

parse_array(toks, i, acc) ==
    LET r == parse_value(toks, i) IN
    IF ~r.ok THEN JFail
    ELSE IF IsP(toks, r.next, ",") THEN parse_array(toks, r.next + 1, Append(acc, r.val))
    ELSE IF IsP(toks, r.next, "]") THEN JOk(JList(Append(acc, r.val)), r.next + 1)
    ELSE JFail

parse_object(toks, i, keys, vals) ==
    IF i <= Len(toks) /\ toks[i].k = "string" /\ IsP(toks, i + 1, ":")
    THEN LET r == parse_value(toks, i + 2) IN
         IF ~r.ok THEN JFail
         ELSE IF IsP(toks, r.next, ",")
              THEN parse_object(toks, r.next + 1, Append(keys, toks[i].s), Append(vals, r.val))
         ELSE IF IsP(toks, r.next, "}")
              THEN JOk(JDict(Append(keys, toks[i].s), Append(vals, r.val)), r.next + 1)
         ELSE JFail
    ELSE JFail

\* json.loads(text): [ok |-> TRUE, val |-> v], or [ok |-> FALSE] for JSONDecodeError.
json_loads(text) ==
    LET r == parse_value(text, 1) IN
    IF r.ok /\ r.next = Len(text) + 1 THEN [ok |-> TRUE, val |-> r.val] ELSE [ok |-> FALSE]

RECURSIVE dumps_items(_)

dumps_items(xs) ==
    IF xs = <<>> THEN <<>>
    ELSE IF Len(xs) = 1 THEN <<S(xs[1])>>
    ELSE <<S(xs[1]), P(",")>> \o dumps_items(Tail(xs))

\* A variant that writes null for the empty list.
json_dumps_null_if_empty(xs) ==
    IF xs = <<>> THEN <<W("null")>> ELSE <<P("[")>> \o dumps_items(xs) \o <<P("]")>>

\* json.dumps(xs, ensure_ascii=False) of a list of strings.
json_dumps(xs) == <<P("[")>> \o dumps_items(xs) \o <<P("]")>>

\* A dict's keys and d[key]; a key given twice keeps its last value.
HasKey(d, key) == \E i \in 1..Len(d.keys) : d.keys[i] = key
DictGet(d, key) ==
    d.vals[CHOOSE i \in 1..Len(d.keys) :
              d.keys[i] = key /\ \A j \in (i + 1)..Len(d.keys) : d.keys[j] # key]

IsListOfStr(v) == v.t = "list" /\ \A i \in 1..Len(v.items) : v.items[i].t = "str"
StrItems(v) == [i \in 1..Len(v.items) |-> v.items[i].s]

-----------------------------------------------------------------------------
(* What the LLM backend may answer *)

\* The text of a JSON array of strings.
Array(xs) == <<P("[")>> \o dumps_items(xs) \o <<P("]")>>

Member(key, valueToks) == <<S(key), P(":")>> \o valueToks
Obj2(m1, m2) == <<P("{")>> \o m1 \o <<P(",")>> \o m2 \o <<P("}")>>
Obj4(m1, m2, m3, m4) ==
    <<P("{")>> \o m1 \o <<P(",")>> \o m2 \o <<P(",")>> \o m3 \o <<P(",")>> \o m4 \o <<P("}")>>

\* {"summary": "S1", "topics": ["A", "B"], "decisions": [], "discussion_points": ["x"]}
R_full ==
    Obj4(Member("summary", <<S("S1")>>), Member("topics", Array(<<"A", "B">>)),
         Member("decisions", Array(<<>>)), Member("discussion_points", Array(<<"x">>)))
\* {"summary": "S2", "topics": []}
R_short == Obj2(Member("summary", <<S("S2")>>), Member("topics", Array(<<>>)))
\* {"summary": "S3", "topics": ["A", "B"], "discussion_points": ["z"]}
R_other ==
    <<P("{")>> \o Member("summary", <<S("S3")>>) \o <<P(",")>>
        \o Member("topics", Array(<<"A", "B">>)) \o <<P(",")>>
        \o Member("discussion_points", Array(<<"z">>)) \o <<P("}")>>
\* {"summary": "S1", "topics": null}
R_nullTopics == Obj2(Member("summary", <<S("S1")>>), Member("topics", <<W("null")>>))
\* ["A"]
R_array == Array(<<"A">>)
\* Here is the summary: {"summary" ...
R_prose == <<J("Here is the summary:")>> \o R_short
R_empty == <<>>

\* {"action_items": [{"title": "T1", "owner": "O1", "due_date": "2024-01-15", "priority": "high"},
\*                   {"title": "T2", "owner": "O2", "due_date": "next Friday"}]}
R_items ==
    <<P("{"), S("action_items"), P(":"), P("[")>>
    \o Obj4(Member("title", <<S("T1")>>), Member("owner", <<S("O1")>>),
            Member("due_date", <<S("2024-01-15")>>), Member("priority", <<S("high")>>))
    \o <<P(",")>>
    \o Obj2(Member("title", <<S("T2")>>),
            Member("owner", <<S("O2")>>) \o <<P(",")>> \o Member("due_date", <<S("next Friday")>>))
    \o <<P("]"), P("}")>>
\* {"action_items": [{"title": "T1", "description": "D1"}]}
R_noOwner ==
    <<P("{"), S("action_items"), P(":"), P("[")>>
    \o Obj2(Member("title", <<S("T1")>>), Member("description", <<S("D1")>>))
    \o <<P("]"), P("}")>>

\* {"action_items": [{"title": "T3", "owner": "O3", "priority": "urgent"}]}
R_urgent ==
    <<P("{"), S("action_items"), P(":"), P("[")>>
    \o Obj2(Member("title", <<S("T3")>>),
            Member("owner", <<S("O3")>>) \o <<P(",")>> \o Member("priority", <<S("urgent")>>))
    \o <<P("]"), P("}")>>

ResponseTexts ==
    {R_full, R_short, R_other, R_nullTopics, R_array, R_prose, R_empty, R_items, R_noOwner,
     R_urgent}

\* The number of action items a text lists, and the largest such number.
ItemsIn(text) ==
    LET v == json_loads(text) IN
    IF v.ok /\ v.val.t = "dict" /\ HasKey(v.val, "action_items")
            /\ DictGet(v.val, "action_items").t = "list"
    THEN Len(DictGet(v.val, "action_items").items) ELSE 0

MaxResponseItems ==
    CHOOSE n \in {ItemsIn(t) : t \in ResponseTexts} :
        \A t \in ResponseTexts : ItemsIn(t) <= n

\* The backend's answer to one request: a completion with text content, a
\* completion whose content is None, or an exception of the provider's SDK.
BackendOutcomes ==
    {[kind |-> "text", text |-> t] : t \in ResponseTexts}
    \cup {[kind |-> "none"]}
    \cup {[kind |-> "raise", exc |-> e] : e \in {"RateLimitError", "APIError", "Exception"}}

\* A backend that is sent an empty key refuses every request (the SDK's
\* AuthenticationError, an APIError).
BackendAnswers ==
    IF settings.LLM_API_KEY = "" THEN {[kind |-> "raise", exc |-> "APIError"]}
    ELSE BackendOutcomes

-----------------------------------------------------------------------------
(* Exceptions *)

Raise(e) == [kind |-> "raise", exc |-> e]
Raised(x) == x.kind = "raise"

\* The subclasses of LLMError (llm_service.py); tenacity's RetryError and the
\* built-in exceptions are not among them.
LLMErrors == {"LLMError", "LLMRateLimitError", "LLMAPIError", "LLMResponseParseError"}

-----------------------------------------------------------------------------
(* The retry policy the adapters are decorated with:                       *)
(*   @retry(retry=retry_if_exception_type(LLMRateLimitError),              *)
(*          stop=stop_after_attempt(settings.LLM_MAX_RETRIES),             *)
(*          wait=wait_exponential(multiplier=1, min=2, max=60))            *)

WAIT_MULTIPLIER == 1
WAIT_MIN == 2
WAIT_MAX == 60

Max(a, b) == IF a >= b THEN a ELSE b
Min(a, b) == IF a <= b THEN a ELSE b

\* A variant that retries on every LLMError.
retry_if_any_llm_error(res) == Raised(res) /\ res.exc \in LLMErrors

retry_if_exception_type(res) == Raised(res) /\ res.exc = "LLMRateLimitError"

\* A variant that allows one attempt more.
stop_after_one_more(n) == n >= settings.LLM_MAX_RETRIES + 1

stop_after_attempt(n) == n >= settings.LLM_MAX_RETRIES

\* A variant without the cap.
wait_exponential_uncapped(n) == Max(Max(0, WAIT_MIN), WAIT_MULTIPLIER * 2 ^ (n - 1))

\* The delay before the attempt that follows attempt n.
wait_exponential(n) == Max(Max(0, WAIT_MIN), Min(WAIT_MULTIPLIER * 2 ^ (n - 1), WAIT_MAX))

-----------------------------------------------------------------------------
(* Provider adapters (AnthropicProvider, OpenAIProvider,                   *)
(* AzureOpenAIProvider): one attempt of generate_completion                *)

\* What one attempt makes of the backend's answer: the content of the first
\* choice, or the SDK's exception mapped to the service's taxonomy.
provider_attempt(outcome) ==
    CASE outcome.kind = "text" -> outcome
      [] outcome.kind = "none" -> outcome
      [] outcome.kind = "raise" /\ outcome.exc = "RateLimitError" -> Raise("LLMRateLimitError")
      [] outcome.kind = "raise" /\ outcome.exc = "APIError" -> Raise("LLMAPIError")
      [] OTHER -> outcome

\* x or default, for an optional number x
OrDefault(x, default) == IF IsNone(x) \/ x.some = 0 THEN default ELSE x.some

NoArgs == [max_tokens |-> None, temperature |-> None, json_mode |-> FALSE]
NoKwargs == [sent |-> FALSE]
NoRet == [kind |-> "nothing"]
NoCall == [op |-> "none"]

\* LLMService.generate_completion: fill in the defaults and enter the
\* adapter, whose first attempt sends the request to the backend.
generate_completion(r) ==
    /\ pc[r] = "generate_completion"
    /\ kwargs' = [kwargs EXCEPT ![r] =
                    [sent |-> TRUE,
                     adapter |-> _provider,
                     max_tokens |-> OrDefault(llmArgs[r].max_tokens, settings.LLM_MAX_TOKENS),
                     temperature |-> OrDefault(llmArgs[r].temperature, settings.LLM_TEMPERATURE),
                     json_mode |-> llmArgs[r].json_mode]]
    /\ attempt_number' = [attempt_number EXCEPT ![r] = 1]
    /\ attempts' = [attempts EXCEPT ![r] = <<>>]
    /\ slept' = [slept EXCEPT ![r] = <<>>]
    /\ pc' = [pc EXCEPT ![r] = "backend"]
    /\ UNCHANGED <<procVars, call, llmArgs, ret, dbVars, sessVars, pre>>

\* The backend answers attempt attempt_number[r]; tenacity returns the
\* result, re-raises, gives up with RetryError, or schedules the next attempt.
backend_reply(r, outcome) ==
    /\ pc[r] = "backend"
    /\ outcome \in BackendAnswers
    /\ LET res == provider_attempt(outcome) IN
       /\ attempts' = [attempts EXCEPT ![r] = Append(@, IF Raised(res) THEN res.exc ELSE "ok")]
       /\ IF ~retry_if_exception_type(res)
          THEN /\ ret' = [ret EXCEPT ![r] = res]
               /\ pc' = [pc EXCEPT ![r] = "completion_done"]
               /\ UNCHANGED slept
          ELSE IF stop_after_attempt(attempt_number[r])
          THEN /\ ret' = [ret EXCEPT ![r] = Raise("RetryError")]
               /\ pc' = [pc EXCEPT ![r] = "completion_done"]
               /\ UNCHANGED slept
          ELSE /\ slept' = [slept EXCEPT ![r] = Append(@, wait_exponential(attempt_number[r]))]
               /\ pc' = [pc EXCEPT ![r] = "sleep"]
               /\ UNCHANGED ret
    /\ UNCHANGED <<procVars, call, llmArgs, kwargs, attempt_number, dbVars, sessVars, pre>>

\* The delay is over: the next attempt sends the request again.
retry_sleep(r) ==
    /\ pc[r] = "sleep"
    /\ attempt_number' = [attempt_number EXCEPT ![r] = @ + 1]
    /\ pc' = [pc EXCEPT ![r] = "backend"]
    /\ UNCHANGED <<procVars, call, llmArgs, kwargs, attempts, slept, ret, dbVars, sessVars, pre>>

\* LLMService.generate_json, first half: call generate_completion with json_mode=True.
generate_json(r) ==
    /\ pc[r] = "generate_json"
    /\ llmArgs' = [llmArgs EXCEPT ![r] = [@ EXCEPT !.json_mode = TRUE]]
    /\ pc' = [pc EXCEPT ![r] = "generate_completion"]
    /\ UNCHANGED <<procVars, call, kwargs, attempt_number, attempts, slept, ret, dbVars, sessVars, pre>>

\* json.loads of each of the backend's texts, decoded once.
ResponsesDecoded == [text \in ResponseTexts |-> json_loads(text)]

\* json.loads(response) in generate_json: None is a TypeError, text that is
\* not JSON a JSONDecodeError, which is re-raised as LLMResponseParseError.
generate_json_result(res) ==
    CASE res.kind = "raise" -> res
      [] res.kind = "none" -> Raise("TypeError")
      [] OTHER -> LET v == IF res.text \in ResponseTexts THEN ResponsesDecoded[res.text]
                           ELSE json_loads(res.text) IN
                  IF v.ok THEN [kind |-> "value", val |-> v.val]
                  ELSE Raise("LLMResponseParseError")

\* LLMService.generate_json, second half.
generate_json_parse(r) ==
    /\ pc[r] = "completion_done"
    /\ call[r].op # "generate_completion"
    /\ ret' = [ret EXCEPT ![r] = generate_json_result(ret[r])]
    /\ pc' = [pc EXCEPT ![r] = "json_done"]
    /\ UNCHANGED <<procVars, call, llmArgs, kwargs, attempt_number, attempts, slept, dbVars, sessVars, pre>>

-----------------------------------------------------------------------------
(* LLMService as a process-wide singleton, and the adapters' constructors  *)
(* (llm_service.py: LLMService.__new__, __init__, _create_provider,        *)
(* get_llm_service; AnthropicProvider/OpenAIProvider/AzureOpenAIProvider   *)
(* .__init__)                                                              *)

UpperCase == <<"A", "B", "C", "D", "E", "F", "G", "H", "I", "J", "K", "L", "M",
               "N", "O", "P", "Q", "R", "S", "T", "U", "V", "W", "X", "Y", "Z">>
LowerCase == <<"a", "b", "c", "d", "e", "f", "g", "h", "i", "j", "k", "l", "m",
               "n", "o", "p", "q", "r", "s", "t", "u", "v", "w", "x", "y", "z">>

lower_char(c) ==
    IF \E i \in 1..Len(UpperCase) : UpperCase[i] = c
    THEN LowerCase[CHOOSE i \in 1..Len(UpperCase) : UpperCase[i] = c]
    ELSE c

\* str.lower()
lower(name) == [i \in 1..Len(name) |-> lower_char(name[i])]

\* A variant that falls back to the OpenAI adapter.
provider_map_or_openai(name) ==
    CASE name = NAME_anthropic -> "AnthropicProvider"
      [] name = NAME_azure_openai -> "AzureOpenAIProvider"
      [] OTHER -> "OpenAIProvider"

\* provider_map.get(name): the adapter class, or "None".
provider_map(name) ==
    CASE name = NAME_anthropic -> "AnthropicProvider"
      [] name = NAME_openai -> "OpenAIProvider"
      [] name = NAME_azure_openai -> "AzureOpenAIProvider"
      [] OTHER -> "None"

\* What importing the SDK and constructing its client can do: give a client,
\* fail to import, or (with an empty key only) be refused by the SDK.
SdkOutcomes ==
    {"client", "ImportError"} \cup (IF settings.LLM_API_KEY = "" THEN {"SDKError"} ELSE {})

\* not settings.AZURE_OPENAI_ENDPOINT
EndpointMissing ==
    IsNone(settings.AZURE_OPENAI_ENDPOINT) \/ settings.AZURE_OPENAI_ENDPOINT.some = ""

\* provider_class(): the adapter, or what its constructor raises.  Only
\* ImportError is caught and re-raised as LLMError; the Azure adapter checks
\* the endpoint after the import and before it builds the client.
provider_init(class, sdk) ==
    IF sdk = "ImportError" THEN Raise("LLMError")
    ELSE IF class = "AzureOpenAIProvider" /\ EndpointMissing THEN Raise("LLMError")
    ELSE IF sdk = "SDKError" THEN Raise("SDKError")
    ELSE [kind |-> "adapter", class |-> class]

\* LLMService._create_provider
create_provider(sdk) ==
    LET provider_class == provider_map(lower(settings.LLM_PROVIDER)) IN
    IF provider_class = "None" THEN Raise("LLMError")
    ELSE provider_init(provider_class, sdk)

\* A variant of __init__ that creates an adapter on every construction.
init_always_creates == TRUE

\* LLMService.__init__: if self._provider is None
init_creates_provider == _provider = 0

\* What LLMService() gives its caller: the service, or the exception of
\* _create_provider.
LLMService_result(sdk) ==
    IF init_creates_provider /\ Raised(create_provider(sdk)) THEN create_provider(sdk)
    ELSE [kind |-> "service"]

\* LLMService(): __new__ keeps the one instance, __init__ creates the adapter
\* when the instance has none.
LLMService(sdk) ==
    /\ _instance' = TRUE
    /\ IF init_creates_provider /\ ~Raised(create_provider(sdk))
       THEN /\ adapters' = Append(adapters, create_provider(sdk).class)
            /\ _provider' = Len(adapters) + 1
       ELSE UNCHANGED <<_provider, adapters>>

\* get_llm_service() called directly.
call_get_llm_service(r, sdk) ==
    /\ pc[r] = "idle"
    /\ sdk \in SdkOutcomes
    /\ call' = [call EXCEPT ![r] = [op |-> "get_llm_service"]]
    /\ ret' = [ret EXCEPT ![r] = LLMService_result(sdk)]
    /\ LLMService(sdk)
    /\ pc' = [pc EXCEPT ![r] = "constructed"]
    /\ UNCHANGED <<settings, llmVars, dbVars, sessVars, pre>>

\* settings.LLM_PROVIDER = name, while the process runs.
set_provider(name) ==
    /\ name # settings.LLM_PROVIDER
    /\ settings' = [settings EXCEPT !.LLM_PROVIDER = name]
    /\ UNCHANGED <<pc, call, llmVars, ret, dbVars, sessVars, pre, singletonVars>>

-----------------------------------------------------------------------------
(* Storage: the tables, and the SQLAlchemy session of a request            *)
(* (db/database.py, models/meeting.py, models/action_item.py).             *)
(*                                                                         *)
(* A session writes to the database when it is flushed and the writes stay *)
(* private to its transaction until the commit.  A flush that fails rolls  *)
(* the transaction back, expires the loaded objects (they read as the      *)
(* database has them) and leaves the session deactivated: every later      *)
(* flush with something to write raises PendingRollbackError.              *)

Columns ==
    {"original_text", "participants", "summary", "topics", "decisions", "discussion_points",
     "status"}

Absent == [stored |-> FALSE]

\* A variant that creates the meeting as completed.
NewMeetingCompleted(text) ==
    [stored |-> TRUE, original_text |-> text, participants |-> None, summary |-> None,
     topics |-> None,
     decisions |-> None, discussion_points |-> None, status |-> "completed"]

\* Meeting(title=..., start_time=..., end_time=..., original_text=...,
\* status="draft") as create_meeting builds it: participants is not given
\* and the column has no default.
NewMeeting(text) ==
    [stored |-> TRUE, original_text |-> text, participants |-> None, summary |-> None,
     topics |-> None,
     decisions |-> None, discussion_points |-> None, status |-> "draft"]

NoObj == [loaded |-> FALSE]

\* What the properties remember of a request: the tables when it began and
\* the value generate_json gave its service.
Before == [meetings |-> dbMeetings, items |-> dbItems, response |-> [kind |-> "nothing"]]
NoWrites == [id \in MeetingIds |-> <<>>]

\* The row a SELECT inside r's transaction returns.
TxRow(r, id) == txMeetings[r][id] @@ dbMeetings[id]

\* The attributes of a loaded object that differ from what was last read or flushed.
DirtyFields(o) == IF o.loaded THEN {f \in Columns : o.row[f] # o.flushed[f]} ELSE {}

\* Another session's transaction has written and not yet committed: SQLite
\* (the configured DATABASE_URL) lets no second transaction write, its
\* statement ends with "database is locked".
WriteLocked(r) ==
    \E q \in Requests \ {r} : txMeetings[q] # NoWrites \/ txItems[q] # <<>>

\* The loaded object has changes for a row that is no longer there: the
\* UPDATE matches no row and the flush raises StaleDataError.
StaleUpdate(r) == DirtyFields(obj[r]) # {} /\ ~TxRow(r, obj[r].id).stored

\* The outcomes of session.flush() with `adds` new objects.  Nothing set and
\* nothing added: nothing to do.  Otherwise the flush begins by checking the
\* transaction, and fails there if an earlier flush failed; the database can
\* fail only when an INSERT or UPDATE is sent.
FlushOutcomes(r, adds) ==
    IF ~(obj[r].loaded /\ obj[r].modified) /\ adds = <<>> THEN {"ok"}
    ELSE IF txState[r] = "deactive" THEN {"PendingRollbackError"}
    ELSE IF DirtyFields(obj[r]) = {} /\ adds = <<>> THEN {"ok"}
    ELSE IF WriteLocked(r) \/ StaleUpdate(r) THEN {"SQLAlchemyError"}
    ELSE {"ok", "SQLAlchemyError"}

NextItemId(r) ==
    LET all == dbItems \o txItems[r] IN
    IF all = <<>> THEN 1 ELSE all[Len(all)].id + 1

\* The loaded object after flush() ended with `outcome`: flushed, or expired
\* by the rollback (its attributes read as the committed row).
ObjAfterFlush(r, outcome) ==
    CASE ~obj[r].loaded -> obj[r]
      [] outcome = "ok" -> [obj[r] EXCEPT !.flushed = obj[r].row, !.modified = FALSE]
      [] outcome = "SQLAlchemyError" ->
            IF dbMeetings[obj[r].id].stored
            THEN [obj[r] EXCEPT !.row = dbMeetings[obj[r].id],
                                !.flushed = dbMeetings[obj[r].id],
                                !.modified = FALSE]
            ELSE NoObj
      [] OTHER -> obj[r]

\* The transaction after flush() ended with `outcome`.
TxMeetingsAfterFlush(r, outcome) ==
    CASE outcome = "ok" /\ DirtyFields(obj[r]) # {} ->
            [txMeetings[r] EXCEPT ![obj[r].id] =
                [f \in DirtyFields(obj[r]) |-> obj[r].row[f]] @@ @]
      [] outcome = "SQLAlchemyError" -> NoWrites
      [] OTHER -> txMeetings[r]

\* A variant in which new objects stay pending after a failed flush.
TxItemsKeptOnFailure(r, adds, outcome) ==
    IF outcome = "PendingRollbackError" THEN txItems[r]
    ELSE txItems[r] \o [i \in 1..Len(adds) |-> [id |-> NextItemId(r) + i - 1] @@ adds[i]]

TxItemsAfterFlush(r, adds, outcome) ==
    CASE outcome = "ok" ->
            txItems[r] \o [i \in 1..Len(adds) |-> [id |-> NextItemId(r) + i - 1] @@ adds[i]]
      [] outcome = "SQLAlchemyError" -> <<>>
      [] OTHER -> txItems[r]

TxStateAfterFlush(r, outcome) ==
    IF outcome = "SQLAlchemyError" THEN "deactive" ELSE txState[r]

\* session.flush() with `adds` new objects, ending with `outcome` and leaving
\* the loaded object as o.
FlushInto(r, adds, outcome, o) ==
    /\ obj' = [obj EXCEPT ![r] = o]
    /\ txMeetings' = [txMeetings EXCEPT ![r] = TxMeetingsAfterFlush(r, outcome)]
    /\ txItems' = [txItems EXCEPT ![r] = TxItemsAfterFlush(r, adds, outcome)]
    /\ txState' = [txState EXCEPT ![r] = TxStateAfterFlush(r, outcome)]

Flush(r, adds, outcome) == FlushInto(r, adds, outcome, ObjAfterFlush(r, outcome))

\* A variant that finds a draft for every id.
get_meeting_or_blank(r, meeting_id) ==
    IF meeting_id \in MeetingIds /\ TxRow(r, meeting_id).stored
    THEN [loaded |-> TRUE, id |-> meeting_id, modified |-> FALSE,
          row |-> TxRow(r, meeting_id), flushed |-> TxRow(r, meeting_id)]
    ELSE [loaded |-> TRUE, id |-> 1, modified |-> FALSE,
          row |-> NewMeeting(None), flushed |-> NewMeeting(None)]

\* select(Meeting).where(Meeting.id == meeting_id), scalar_one_or_none()
get_meeting(r, meeting_id) ==
    IF meeting_id \in MeetingIds /\ TxRow(r, meeting_id).stored
    THEN [loaded |-> TRUE, id |-> meeting_id, modified |-> FALSE,
          row |-> TxRow(r, meeting_id), flushed |-> TxRow(r, meeting_id)]
    ELSE NoObj

\* meeting.<field> = value
SetAttr(o, field, value) == [o EXCEPT !.row[field] = value, !.modified = TRUE]

\* The transaction deleted the meeting.
Deleted(r, id) == "stored" \in DOMAIN txMeetings[r][id] /\ ~txMeetings[r][id].stored

\* The action items left when the transaction's deleted meetings take
\* theirs with them (cascade="all, delete-orphan").
ItemsKept(r, items) ==
    LET Kept(item) == ~(item.meeting_id \in MeetingIds /\ Deleted(r, item.meeting_id)) IN
    SelectSeq(items, Kept)

\* session.commit(): the transaction's writes reach the tables.
Commit(r) ==
    /\ dbMeetings' = [id \in MeetingIds |->
          IF DOMAIN txMeetings[r][id] = {} THEN dbMeetings[id]
          ELSE IF Deleted(r, id) THEN Absent
          ELSE IF dbMeetings[id].stored \/ "stored" \in DOMAIN txMeetings[r][id]
               THEN txMeetings[r][id] @@ dbMeetings[id]
               ELSE dbMeetings[id]]
    /\ dbItems' = ItemsKept(r, dbItems) \o txItems[r]

-----------------------------------------------------------------------------
(* Texts of meetings: sequences of characters *)

Whitespace == {" ", "\t", "\n"}

RECURSIVE lstrip(_)
lstrip(text) ==
    IF text # <<>> /\ Head(text) \in Whitespace THEN lstrip(Tail(text)) ELSE text

RECURSIVE rstrip(_)
rstrip(text) ==
    IF text # <<>> /\ text[Len(text)] \in Whitespace
    THEN rstrip(SubSeq(text, 1, Len(text) - 1)) ELSE text

\* str.strip()
strip(text) == rstrip(lstrip(text))

\* A variant without the strip().
NoContentUnstripped(original_text) ==
    \/ IsNone(original_text)
    \/ original_text.some = <<>>

\* not meeting.original_text or not meeting.original_text.strip()
NoContent(original_text) ==
    \/ IsNone(original_text)
    \/ original_text.some = <<>>
    \/ strip(original_text.some) = <<>>

OriginalTexts == {None, Some(<<>>), Some(<<" ", "\n">>), Some(<<" ", "h", "i">>)}

-----------------------------------------------------------------------------
(* MeetingSummaryService (services/summary_service.py) *)

\* MeetingSummaryOutput(**response): the validated model, TypeError when the
\* response is no mapping, ValidationError when a field is missing or has
\* the wrong type.  decisions and discussion_points default to [].
MeetingSummaryOutput(response) ==
    IF response.t # "dict" THEN Raise("TypeError")
    ELSE IF \/ ~HasKey(response, "summary")
            \/ ~HasKey(response, "topics")
            \/ DictGet(response, "summary").t # "str"
            \/ ~IsListOfStr(DictGet(response, "topics"))
            \/ HasKey(response, "decisions") /\ ~IsListOfStr(DictGet(response, "decisions"))
            \/ HasKey(response, "discussion_points")
                  /\ ~IsListOfStr(DictGet(response, "discussion_points"))
         THEN Raise("ValidationError")
    ELSE [kind |-> "model",
          summary |-> DictGet(response, "summary").s,
          topics |-> StrItems(DictGet(response, "topics")),
          decisions |-> IF HasKey(response, "decisions")
                        THEN StrItems(DictGet(response, "decisions")) ELSE <<>>,
          discussion_points |-> IF HasKey(response, "discussion_points")
                                THEN StrItems(DictGet(response, "discussion_points"))
                                ELSE <<>>]

\* _generate_summary_from_llm, after generate_json: parse errors, validation
\* errors and LLM errors become SummaryGenerationError; anything else passes.
generate_summary_from_llm(res) ==
    IF Raised(res)
    THEN IF res.exc \in LLMErrors THEN Raise("SummaryGenerationError") ELSE res
    ELSE LET out == MeetingSummaryOutput(res.val) IN
         IF Raised(out) /\ out.exc = "ValidationError"
         THEN Raise("SummaryGenerationError")
         ELSE out

\* meeting.summary = ..., the three lists as JSON text, status = completed
StoreResults(o, out) ==
    [o EXCEPT !.row.summary = Some(out.summary),
              !.row.topics = Some(json_dumps(out.topics)),
              !.row.decisions = Some(json_dumps(out.decisions)),
              !.row.discussion_points = Some(json_dumps(out.discussion_points)),
              !.row.status = "completed",
              !.modified = TRUE]

\* A variant of the except branch that leaves the status as it is.
KeepStatus(o) == o

\* A variant of the except branch that also clears the summary.
SetStatusDraftClearSummary(o) ==
    IF o.loaded THEN [o EXCEPT !.row.status = "draft", !.row.summary = None, !.modified = TRUE]
    ELSE o

\* meeting.status = MeetingStatus.DRAFT.value
SetStatusDraft(o) == IF o.loaded THEN SetAttr(o, "status", "draft") ELSE o

\* MeetingSummaryService(db) and the call of generate_summary(meeting_id):
\* the constructor takes the LLM service and may fail with its exception.
start_generate_summary(r, meeting_id, sdk) ==
    /\ pc[r] = "idle"
    /\ sdk \in SdkOutcomes
    /\ pre' = [pre EXCEPT ![r] = Before]
    /\ LLMService(sdk)
    /\ IF Raised(LLMService_result(sdk))
       THEN /\ call' = [call EXCEPT ![r] = [op |-> "MeetingSummaryService", meeting_id |-> meeting_id]]
            /\ ret' = [ret EXCEPT ![r] = LLMService_result(sdk)]
            /\ pc' = [pc EXCEPT ![r] = "raised"]
       ELSE /\ call' = [call EXCEPT ![r] = [op |-> "generate_summary", meeting_id |-> meeting_id]]
            /\ pc' = [pc EXCEPT ![r] = "summary_load"]
            /\ UNCHANGED ret
    /\ UNCHANGED <<settings, llmVars, dbVars, sessVars>>

\* generate_summary up to the first flush: load the meeting, refuse a missing
\* one or one without content, set status = processing.
generate_summary_load(r) ==
    /\ pc[r] = "summary_load"
    /\ LET meeting == get_meeting(r, call[r].meeting_id) IN
       IF ~meeting.loaded
       THEN /\ ret' = [ret EXCEPT ![r] = Raise("MeetingNotFoundError")]
            /\ pc' = [pc EXCEPT ![r] = "raised"]
            /\ UNCHANGED obj
       ELSE IF NoContent(meeting.row.original_text)
       THEN /\ ret' = [ret EXCEPT ![r] = Raise("SummaryGenerationError")]
            /\ pc' = [pc EXCEPT ![r] = "raised"]
            /\ obj' = [obj EXCEPT ![r] = meeting]
       ELSE /\ obj' = [obj EXCEPT ![r] = SetAttr(meeting, "status", "processing")]
            /\ pc' = [pc EXCEPT ![r] = "summary_flush_processing"]
            /\ UNCHANGED ret
    /\ UNCHANGED <<procVars, call, llmVars, dbVars, txMeetings, txItems, txState, pre>>

\* The flush of status = processing; then the prompt is built and
\* generate_json(messages, temperature=0.3) is called.  A failing flush is
\* outside the try block.
generate_summary_flush_processing(r, outcome) ==
    /\ pc[r] = "summary_flush_processing"
    /\ outcome \in FlushOutcomes(r, <<>>)
    /\ Flush(r, <<>>, outcome)
    /\ IF outcome = "ok"
       THEN /\ llmArgs' = [llmArgs EXCEPT ![r] =
                            [max_tokens |-> None, temperature |-> Some(3), json_mode |-> FALSE]]
            /\ pc' = [pc EXCEPT ![r] = "generate_json"]
            /\ UNCHANGED ret
       ELSE /\ ret' = [ret EXCEPT ![r] = Raise(outcome)]
            /\ pc' = [pc EXCEPT ![r] = "raised"]
            /\ UNCHANGED llmArgs
    /\ UNCHANGED <<procVars, call, kwargs, attempt_number, attempts, slept, dbVars, pre>>

\* generate_json is back.  On a validated summary the results are stored in
\* the object and status = completed; on any exception the except branch
\* sets status = draft.  Either way a flush comes next.
generate_summary_store(r) ==
    /\ pc[r] = "json_done"
    /\ call[r].op = "generate_summary"
    /\ LET out == generate_summary_from_llm(ret[r]) IN
       IF Raised(out)
       THEN /\ obj' = [obj EXCEPT ![r] = SetStatusDraft(@)]
            /\ pc' = [pc EXCEPT ![r] = "summary_flush_revert"]
       ELSE /\ obj' = [obj EXCEPT ![r] = StoreResults(@, out)]
            /\ pc' = [pc EXCEPT ![r] = "summary_flush_result"]
    /\ pre' = [pre EXCEPT ![r].response = ret[r]]
    /\ UNCHANGED <<procVars, call, llmVars, ret, dbVars, txMeetings, txItems, txState>>

\* The flush of the results: the meeting is returned, or the except branch
\* sets status = draft.
generate_summary_flush_result(r, outcome) ==
    /\ pc[r] = "summary_flush_result"
    /\ outcome \in FlushOutcomes(r, <<>>)
    /\ IF outcome = "ok"
       THEN /\ Flush(r, <<>>, outcome)
            /\ ret' = [ret EXCEPT ![r] = [kind |-> "meeting"]]
            /\ pc' = [pc EXCEPT ![r] = "returned"]
       ELSE /\ FlushInto(r, <<>>, outcome, SetStatusDraft(ObjAfterFlush(r, outcome)))
            /\ pc' = [pc EXCEPT ![r] = "summary_flush_revert"]
            /\ UNCHANGED ret
    /\ UNCHANGED <<procVars, call, llmVars, dbVars, pre>>

\* The flush of status = draft in the except branch, and the raise that
\* follows it; a failing flush raises instead.
generate_summary_flush_revert(r, outcome) ==
    /\ pc[r] = "summary_flush_revert"
    /\ outcome \in FlushOutcomes(r, <<>>)
    /\ Flush(r, <<>>, outcome)
    /\ ret' = [ret EXCEPT ![r] =
                 IF outcome = "ok" THEN Raise("SummaryGenerationError") ELSE Raise(outcome)]
    /\ pc' = [pc EXCEPT ![r] = "raised"]
    /\ UNCHANGED <<procVars, call, llmVars, dbVars, pre>>

-----------------------------------------------------------------------------
(* ActionItemExtractionService (services/action_item_service.py) *)

ValidDates == {"2024-01-15"}

\* datetime.strptime(text, "%Y-%m-%d"): the date, or ValueError.
strptime(text) == IF text \in ValidDates THEN [kind |-> "date", date |-> text] ELSE Raise("ValueError")

IsOptional(d, key, types) == ~HasKey(d, key) \/ DictGet(d, key).t \in types

\* ActionItemOutput: title and owner are required strings; description
\* defaults to "", due_date to None and priority to "medium".
IsActionItemOutput(v) ==
    /\ v.t = "dict"
    /\ HasKey(v, "title") /\ DictGet(v, "title").t = "str"
    /\ HasKey(v, "owner") /\ DictGet(v, "owner").t = "str"
    /\ IsOptional(v, "description", {"str"})
    /\ IsOptional(v, "due_date", {"str", "NoneType"})
    /\ IsOptional(v, "priority", {"str"})

ActionItemOutput(v) ==
    [title |-> DictGet(v, "title").s,
     owner |-> DictGet(v, "owner").s,
     description |-> IF HasKey(v, "description") THEN DictGet(v, "description").s ELSE "",
     due_date |-> IF HasKey(v, "due_date") /\ DictGet(v, "due_date").t = "str"
                  THEN Some(DictGet(v, "due_date").s) ELSE None,
     priority |-> IF HasKey(v, "priority") THEN DictGet(v, "priority").s ELSE "medium"]

\* ActionItemsExtractionOutput(**response)
ActionItemsExtractionOutput(response) ==
    IF response.t # "dict" THEN Raise("TypeError")
    ELSE IF ~HasKey(response, "action_items") THEN [kind |-> "model", action_items |-> <<>>]
    ELSE LET v == DictGet(response, "action_items") IN
         IF v.t = "list" /\ \A i \in 1..Len(v.items) : IsActionItemOutput(v.items[i])
         THEN [kind |-> "model",
               action_items |-> [i \in 1..Len(v.items) |-> ActionItemOutput(v.items[i])]]
         ELSE Raise("ValidationError")

\* _extract_from_llm, after generate_json.
extract_from_llm(res) ==
    IF Raised(res)
    THEN IF res.exc \in LLMErrors THEN Raise("ActionItemExtractionError") ELSE res
    ELSE LET out == ActionItemsExtractionOutput(res.val) IN
         IF Raised(out) /\ out.exc = "ValidationError"
         THEN Raise("ActionItemExtractionError")
         ELSE out

\* A variant that stores the due_date text as it came.
NewActionItemRawDate(meeting_id, item) ==
    [meeting_id |-> meeting_id,
     title |-> item.title,
     description |-> item.description,
     owner |-> item.owner,
     due_date |-> item.due_date,
     priority |-> item.priority,
     status |-> "todo"]

\* The ActionItem _save_action_items builds of one extracted item.
NewActionItem(meeting_id, item) ==
    [meeting_id |-> meeting_id,
     title |-> item.title,
     description |-> item.description,
     owner |-> item.owner,
     due_date |-> IF IsNone(item.due_date) \/ item.due_date.some = "" THEN None
                  ELSE LET d == strptime(item.due_date.some) IN
                       IF Raised(d) THEN None ELSE Some(d.date),
     priority |-> item.priority,
     status |-> "todo"]

\* ActionItemExtractionService(db) and the call of
\* extract_action_items(meeting_id).
start_extract_action_items(r, meeting_id, sdk) ==
    /\ pc[r] = "idle"
    /\ sdk \in SdkOutcomes
    /\ Len(dbItems) + MaxResponseItems <= MaxItems
    /\ pre' = [pre EXCEPT ![r] = Before]
    /\ LLMService(sdk)
    /\ IF Raised(LLMService_result(sdk))
       THEN /\ call' = [call EXCEPT ![r] = [op |-> "ActionItemExtractionService", meeting_id |-> meeting_id]]
            /\ ret' = [ret EXCEPT ![r] = LLMService_result(sdk)]
            /\ pc' = [pc EXCEPT ![r] = "raised"]
       ELSE /\ call' = [call EXCEPT ![r] = [op |-> "extract_action_items", meeting_id |-> meeting_id]]
            /\ pc' = [pc EXCEPT ![r] = "extract_load"]
            /\ UNCHANGED ret
    /\ UNCHANGED <<settings, llmVars, dbVars, sessVars>>

\* build_action_items_prompt(meeting_content=..., participants=...,
\* meeting_date=...): what the prompt is built of.
build_action_items_prompt(meeting_content, participants) ==
    [meeting_content |-> meeting_content, participants |-> participants]

\* extract_action_items up to the LLM call: load the meeting, refuse a
\* missing one or one without content, call generate_json(temperature=0.3).
extract_action_items_load(r) ==
    /\ pc[r] = "extract_load"
    /\ LET meeting == get_meeting(r, call[r].meeting_id) IN
       IF ~meeting.loaded
       THEN /\ ret' = [ret EXCEPT ![r] = Raise("MeetingNotFoundError")]
            /\ pc' = [pc EXCEPT ![r] = "raised"]
            /\ UNCHANGED <<obj, llmArgs>>
       ELSE IF NoContent(meeting.row.original_text)
       THEN /\ ret' = [ret EXCEPT ![r] = Raise("ActionItemExtractionError")]
            /\ pc' = [pc EXCEPT ![r] = "raised"]
            /\ obj' = [obj EXCEPT ![r] = meeting]
            /\ UNCHANGED llmArgs
       ELSE /\ obj' = [obj EXCEPT ![r] = meeting]
            /\ llmArgs' = [llmArgs EXCEPT ![r] =
                            [max_tokens |-> None, temperature |-> Some(3), json_mode |-> FALSE,
                             prompt |-> build_action_items_prompt(meeting.row.original_text,
                                                                  meeting.row.participants)]]
            /\ pc' = [pc EXCEPT ![r] = "generate_json"]
            /\ UNCHANGED ret
    /\ UNCHANGED <<procVars, call, kwargs, attempt_number, attempts, slept, dbVars,
                   txMeetings, txItems, txState, pre>>

\* generate_json is back: validate the response and save its items with one
\* flush.  Every exception becomes ActionItemExtractionError.
extract_action_items_save(r, outcome) ==
    /\ pc[r] = "json_done"
    /\ call[r].op = "extract_action_items"
    /\ LET out == extract_from_llm(ret[r]) IN
       IF Raised(out)
       THEN /\ outcome = "ok"
            /\ ret' = [ret EXCEPT ![r] = Raise("ActionItemExtractionError")]
            /\ pc' = [pc EXCEPT ![r] = "raised"]
            /\ UNCHANGED sessVars
       ELSE LET adds == [i \in 1..Len(out.action_items) |->
                            NewActionItem(call[r].meeting_id, out.action_items[i])] IN
            /\ outcome \in FlushOutcomes(r, adds)
            /\ Flush(r, adds, outcome)
            /\ IF outcome = "ok"
               THEN /\ ret' = [ret EXCEPT ![r] =
                                 [kind |-> "items",
                                  items |-> SubSeq(txItems'[r], Len(txItems[r]) + 1,
                                                   Len(txItems'[r]))]]
                    /\ pc' = [pc EXCEPT ![r] = "returned"]
               ELSE /\ ret' = [ret EXCEPT ![r] = Raise("ActionItemExtractionError")]
                    /\ pc' = [pc EXCEPT ![r] = "raised"]
    /\ pre' = [pre EXCEPT ![r].response = ret[r]]
    /\ UNCHANGED <<procVars, call, llmVars, dbVars>>

-----------------------------------------------------------------------------
(* Endpoints and the unit of work of a request                             *)
(* (api/v1/endpoints/meetings.py, db/database.py)                          *)

NextMeetingId ==
    IF \A id \in MeetingIds : ~dbMeetings[id].stored THEN 1
    ELSE 1 + CHOOSE id \in MeetingIds :
                 dbMeetings[id].stored /\ \A j \in MeetingIds : dbMeetings[j].stored => j <= id

\* The participants a request body can give.
ParticipantsChoices == {None, Some(<<"Ann", "Bob">>)}

\* POST /meetings with a body giving original_text and participants: add a
\* Meeting with status draft and flush.
create_meeting(r, original_text, participants, outcome) ==
    /\ pc[r] = "idle"
    /\ NextMeetingId \in MeetingIds
    /\ outcome \in {"ok", "SQLAlchemyError"}
    /\ WriteLocked(r) => outcome # "ok"
    /\ call' = [call EXCEPT ![r] =
                  [op |-> "create_meeting",
                   meeting |-> [original_text |-> original_text, participants |-> participants]]]
    /\ pre' = [pre EXCEPT ![r] = Before]
    /\ IF outcome = "ok"
       THEN /\ txMeetings' = [txMeetings EXCEPT ![r][NextMeetingId] = NewMeeting(original_text)]
            /\ obj' = [obj EXCEPT ![r] =
                         [loaded |-> TRUE, id |-> NextMeetingId, modified |-> FALSE,
                          row |-> NewMeeting(original_text),
                          flushed |-> NewMeeting(original_text)]]
            /\ ret' = [ret EXCEPT ![r] = [kind |-> "meeting"]]
            /\ pc' = [pc EXCEPT ![r] = "returned"]
            /\ UNCHANGED txState
       ELSE /\ txState' = [txState EXCEPT ![r] = "deactive"]
            /\ ret' = [ret EXCEPT ![r] = Raise(outcome)]
            /\ pc' = [pc EXCEPT ![r] = "raised"]
            /\ UNCHANGED <<txMeetings, obj>>
    /\ UNCHANGED <<procVars, llmVars, dbVars, txItems>>

\* The request bodies of PUT /meetings/{id} as model_dump(exclude_unset=True)
\* gives them: the fields the client sent, with their values.
UpdateBodies ==
    {<<>>,
     [status |-> "draft"], [status |-> "processing"], [status |-> "completed"],
     [summary |-> Some("S9")], [summary |-> None],
     [participants |-> Some(<<"Cy">>)],
     [original_text |-> None, status |-> "completed"]}

\* setattr(meeting, field, value) for every field of update_data.
SetAttrs(o, update_data) ==
    [o EXCEPT !.row = [f \in DOMAIN o.row |->
                          IF f \in DOMAIN update_data THEN update_data[f] ELSE o.row[f]],
              !.modified = (DOMAIN update_data # {})]

\* PUT /meetings/{id}: load the meeting, answer 404 when there is none, else
\* set every field the body gives, flush and refresh.
update_meeting(r, meeting_id, update_data, outcome) ==
    /\ pc[r] = "idle"
    /\ outcome \in {"ok", "SQLAlchemyError"}
    /\ call' = [call EXCEPT ![r] = [op |-> "update_meeting", meeting_id |-> meeting_id]]
    /\ pre' = [pre EXCEPT ![r] = Before]
    /\ IF ~get_meeting(r, meeting_id).loaded
       THEN /\ outcome = "ok"
            /\ ret' = [ret EXCEPT ![r] = Raise("HTTPException")]
            /\ pc' = [pc EXCEPT ![r] = "raised"]
            /\ UNCHANGED <<obj, txMeetings, txState>>
       ELSE LET meeting == SetAttrs(get_meeting(r, meeting_id), update_data) IN
            /\ DirtyFields(meeting) = {} => outcome = "ok"
            /\ (DirtyFields(meeting) # {} /\ WriteLocked(r)) => outcome # "ok"
            /\ IF outcome = "ok"
               THEN /\ obj' = [obj EXCEPT ![r] =
                                [meeting EXCEPT !.flushed = meeting.row, !.modified = FALSE]]
                    /\ txMeetings' = [txMeetings EXCEPT ![r][meeting_id] =
                                        [f \in DirtyFields(meeting) |-> meeting.row[f]] @@ @]
                    /\ ret' = [ret EXCEPT ![r] = [kind |-> "meeting"]]
                    /\ pc' = [pc EXCEPT ![r] = "returned"]
                    /\ UNCHANGED txState
               ELSE /\ txState' = [txState EXCEPT ![r] = "deactive"]
                    /\ ret' = [ret EXCEPT ![r] = Raise(outcome)]
                    /\ pc' = [pc EXCEPT ![r] = "raised"]
                    /\ UNCHANGED <<obj, txMeetings>>
    /\ UNCHANGED <<procVars, llmVars, dbVars, txItems>>

\* DELETE /meetings/{id}: load the meeting, answer 404 when there is none,
\* else delete it, its action items with it, and flush.
delete_meeting(r, meeting_id, outcome) ==
    /\ pc[r] = "idle"
    /\ outcome \in {"ok", "SQLAlchemyError"}
    /\ call' = [call EXCEPT ![r] = [op |-> "delete_meeting", meeting_id |-> meeting_id]]
    /\ pre' = [pre EXCEPT ![r] = Before]
    /\ IF ~get_meeting(r, meeting_id).loaded
       THEN /\ outcome = "ok"
            /\ ret' = [ret EXCEPT ![r] = Raise("HTTPException")]
            /\ pc' = [pc EXCEPT ![r] = "raised"]
            /\ UNCHANGED <<txMeetings, txState>>
       ELSE /\ WriteLocked(r) => outcome # "ok"
            /\ IF outcome = "ok"
               THEN /\ txMeetings' = [txMeetings EXCEPT ![r][meeting_id] = Absent]
                    /\ ret' = [ret EXCEPT ![r] = [kind |-> "deleted"]]
                    /\ pc' = [pc EXCEPT ![r] = "returned"]
                    /\ UNCHANGED txState
               ELSE /\ txState' = [txState EXCEPT ![r] = "deactive"]
                    /\ ret' = [ret EXCEPT ![r] = Raise(outcome)]
                    /\ pc' = [pc EXCEPT ![r] = "raised"]
                    /\ UNCHANGED txMeetings
    /\ UNCHANGED <<procVars, llmVars, dbVars, obj, txItems>>

\* GET /meetings/{id}/summary-status: read the meeting in the request's own
\* session and answer with its status, or 404 when there is none.
get_summary_status(r, meeting_id) ==
    /\ pc[r] = "idle"
    /\ call' = [call EXCEPT ![r] = [op |-> "get_summary_status", meeting_id |-> meeting_id]]
    /\ pre' = [pre EXCEPT ![r] = Before]
    /\ LET meeting == get_meeting(r, meeting_id) IN
       IF ~meeting.loaded
       THEN /\ ret' = [ret EXCEPT ![r] = Raise("HTTPException")]
            /\ pc' = [pc EXCEPT ![r] = "raised"]
            /\ UNCHANGED obj
       ELSE /\ obj' = [obj EXCEPT ![r] = meeting]
            /\ ret' = [ret EXCEPT ![r] =
                         [kind |-> "status",
                          meeting_id |-> meeting.id,
                          status |-> meeting.row.status,
                          has_summary |-> ~IsNone(meeting.row.summary),
                          has_content |-> /\ ~IsNone(meeting.row.original_text)
                                          /\ strip(meeting.row.original_text.some) # <<>>]]
            /\ pc' = [pc EXCEPT ![r] = "returned"]
    /\ UNCHANGED <<procVars, llmVars, dbVars, txMeetings, txItems, txState>>

\* Meeting.topics_list (decisions_list and discussion_points_list are the
\* same code on their columns): the decoded value of the column's text, []
\* for null, for empty text and for text json.loads does not accept.
topics_list(stored) ==
    IF IsNone(stored) \/ stored.some = <<>> THEN JList(<<>>)
    ELSE LET v == json_loads(stored.some) IN
         IF v.ok THEN v.val ELSE JList(<<>>)

\* MeetingResponse.parse_json_field, the validator that runs before the
\* field's own validation, on a column's value (None or text).
parse_json_field(v) ==
    IF IsNone(v) THEN JList(<<>>)
    ELSE LET parsed == json_loads(v.some) IN
         IF parsed.ok /\ parsed.val.t = "list" THEN parsed.val ELSE JList(<<>>)

\* The validation of a field declared List[str]: every element has to be a
\* string, anything else is a ValidationError.
validate_list_of_str(v) ==
    IF IsListOfStr(v) THEN [kind |-> "value", val |-> StrItems(v)]
    ELSE Raise("ValidationError")

\* MeetingResponse built from a Meeting (response_model, from_attributes).
MeetingResponse(row) ==
    LET topics == validate_list_of_str(parse_json_field(row.topics))
        decisions == validate_list_of_str(parse_json_field(row.decisions))
        discussion_points == validate_list_of_str(parse_json_field(row.discussion_points))
    IN IF Raised(topics) \/ Raised(decisions) \/ Raised(discussion_points)
       THEN Raise("ResponseValidationError")
       ELSE [kind |-> "response", status |-> row.status, summary |-> row.summary,
             original_text |-> row.original_text, participants |-> row.participants,
             topics |-> topics.val, decisions |-> decisions.val,
             discussion_points |-> discussion_points.val]

\* GET /meetings/{id}: load the meeting, answer 404 when there is none, else
\* answer with the MeetingResponse made of it.
get_meeting_endpoint(r, meeting_id) ==
    /\ pc[r] = "idle"
    /\ call' = [call EXCEPT ![r] = [op |-> "get_meeting", meeting_id |-> meeting_id]]
    /\ pre' = [pre EXCEPT ![r] = Before]
    /\ LET meeting == get_meeting(r, meeting_id) IN
       IF ~meeting.loaded
       THEN /\ ret' = [ret EXCEPT ![r] = Raise("HTTPException")]
            /\ pc' = [pc EXCEPT ![r] = "raised"]
            /\ UNCHANGED obj
       ELSE /\ obj' = [obj EXCEPT ![r] = meeting]
            /\ ret' = [ret EXCEPT ![r] = MeetingResponse(meeting.row)]
            /\ pc' = [pc EXCEPT ![r] = IF Raised(MeetingResponse(meeting.row))
                                       THEN "raised" ELSE "returned"]
    /\ UNCHANGED <<procVars, llmVars, dbVars, txMeetings, txItems, txState>>

\* POST /meetings/{id}/generate-summary: the status code for the service's
\* result; an exception the endpoint does not handle is answered with 500.
generate_meeting_summary(res) ==
    IF ~Raised(res) THEN 200
    ELSE IF res.exc = "MeetingNotFoundError" THEN 404
    ELSE 500

\* The request's slot is free again.
ResetSlot(r) ==
    /\ pc' = [pc EXCEPT ![r] = "idle"]
    /\ call' = [call EXCEPT ![r] = NoCall]
    /\ llmArgs' = [llmArgs EXCEPT ![r] = NoArgs]
    /\ kwargs' = [kwargs EXCEPT ![r] = NoKwargs]
    /\ attempt_number' = [attempt_number EXCEPT ![r] = 0]
    /\ attempts' = [attempts EXCEPT ![r] = <<>>]
    /\ slept' = [slept EXCEPT ![r] = <<>>]
    /\ ret' = [ret EXCEPT ![r] = NoRet]
    /\ obj' = [obj EXCEPT ![r] = NoObj]
    /\ txMeetings' = [txMeetings EXCEPT ![r] = NoWrites]
    /\ txItems' = [txItems EXCEPT ![r] = <<>>]
    /\ txState' = [txState EXCEPT ![r] = "active"]
    /\ pre' = [pre EXCEPT ![r] = None]

\* A variant that commits whatever the endpoint did.
get_db_commit_always(r) ==
    /\ pc[r] \in {"returned", "raised"}
    /\ Commit(r)
    /\ ResetSlot(r)
    /\ UNCHANGED procVars

\* get_db after the endpoint: commit when it returned, roll back when it raised.
get_db(r) ==
    /\ pc[r] \in {"returned", "raised"}
    /\ IF pc[r] = "returned" THEN Commit(r) ELSE UNCHANGED dbVars
    /\ ResetSlot(r)
    /\ UNCHANGED procVars

-----------------------------------------------------------------------------
(* Direct callers of LLMService *)

MaxTokensArgs == {None, Some(0), Some(256)}
TemperatureArgs == {None, Some(0), Some(3)}

call_generate_completion(r, max_tokens, temperature, json_mode) ==
    /\ pc[r] = "idle"
    /\ _provider # 0
    /\ call' = [call EXCEPT ![r] = [op |-> "generate_completion"]]
    /\ llmArgs' = [llmArgs EXCEPT ![r] =
                     [max_tokens |-> max_tokens, temperature |-> temperature,
                      json_mode |-> json_mode]]
    /\ pc' = [pc EXCEPT ![r] = "generate_completion"]
    /\ UNCHANGED <<procVars, kwargs, attempt_number, attempts, slept, ret, dbVars, sessVars, pre>>

call_generate_json(r, max_tokens, temperature) ==
    /\ pc[r] = "idle"
    /\ _provider # 0
    /\ call' = [call EXCEPT ![r] = [op |-> "generate_json"]]
    /\ llmArgs' = [llmArgs EXCEPT ![r] =
                     [max_tokens |-> max_tokens, temperature |-> temperature,
                      json_mode |-> FALSE]]
    /\ pc' = [pc EXCEPT ![r] = "generate_json"]
    /\ UNCHANGED <<procVars, kwargs, attempt_number, attempts, slept, ret, dbVars, sessVars, pre>>

\* The call is over and its result is with the caller.
llm_call_returns(r) ==
    /\ \/ pc[r] = "completion_done" /\ call[r].op = "generate_completion"
       \/ pc[r] = "json_done" /\ call[r].op = "generate_json"
       \/ pc[r] = "constructed"
    /\ ResetSlot(r)
    /\ UNCHANGED <<procVars, dbVars>>

-----------------------------------------------------------------------------
(* AnthropicProvider.generate_completion called with a list of messages *)

\* A message's content is a text in pieces; the empty text has none.
JSON_ONLY == "You must respond with valid JSON only. No additional text."

Message(role, content) == [role |-> role, content |-> content]

MessageChoices ==
    {Message("system", <<"A">>), Message("system", <<"B">>), Message("system", <<>>),
     Message("user", <<"U">>), Message("assistant", <<"V">>)}

MessageLists ==
    UNION {[1..n -> MessageChoices] : n \in 0..MaxMessages}

IsSystem(msg) == msg.role = "system"
NotSystem(msg) == msg.role # "system"

\* The loop over the messages: system_message is the content of the system
\* message met last, None when there is none.
system_message(messages) ==
    LET at == {i \in 1..Len(messages) : IsSystem(messages[i])} IN
    IF at = {} THEN None
    ELSE Some(messages[CHOOSE i \in at : \A j \in at : j <= i].content)

\* not system_message: None and the empty text are false.
Falsy(text) == IsNone(text) \/ text.some = <<>>

\* The system text after the json_mode branch.
with_json_instruction(text, json_mode) ==
    IF json_mode /\ ~Falsy(text) THEN Some(text.some \o <<"\n\n", JSON_ONLY>>)
    ELSE IF json_mode THEN Some(<<JSON_ONLY>>)
    ELSE text

\* The kwargs of self.client.messages.create: "system" only when the text
\* is not empty.
anthropic_kwargs(messages, max_tokens, temperature, json_mode) ==
    LET text == with_json_instruction(system_message(messages), json_mode) IN
    [sent |-> TRUE,
     max_tokens |-> max_tokens,
     temperature |-> temperature,
     json_mode |-> json_mode,
     messages |-> SelectSeq(messages, NotSystem),
     system |-> IF Falsy(text) THEN None ELSE text]

\* AnthropicProvider.generate_completion(messages, json_mode=...) with the
\* defaults for max_tokens and temperature: the first attempt sends the
\* request to the backend.
AnthropicProvider_generate_completion(r, messages, json_mode) ==
    /\ pc[r] = "idle"
    /\ call' = [call EXCEPT ![r] =
                  [op |-> "generate_completion", messages |-> messages, json_mode |-> json_mode]]
    /\ llmArgs' = [llmArgs EXCEPT ![r] =
                     [max_tokens |-> Some(LLM_MAX_TOKENS), temperature |-> Some(LLM_TEMPERATURE),
                      json_mode |-> json_mode]]
    /\ kwargs' = [kwargs EXCEPT ![r] =
                    anthropic_kwargs(messages, LLM_MAX_TOKENS, LLM_TEMPERATURE, json_mode)]
    /\ attempt_number' = [attempt_number EXCEPT ![r] = 1]
    /\ attempts' = [attempts EXCEPT ![r] = <<>>]
    /\ slept' = [slept EXCEPT ![r] = <<>>]
    /\ pc' = [pc EXCEPT ![r] = "backend"]
    /\ UNCHANGED <<procVars, ret, dbVars, sessVars, pre>>

-----------------------------------------------------------------------------
(* Specifications *)

AllIdle == \A q \in Requests : pc[q] = "idle"

\* One request at a time: no request is in progress, and the next one is
\* served in the first slot.
Sequential(r) == AllIdle /\ \A q \in Requests : r <= q

IdleRequests ==
    /\ pc = [r \in Requests |-> "idle"]
    /\ call = [r \in Requests |-> NoCall]
    /\ llmArgs = [r \in Requests |-> NoArgs]
    /\ kwargs = [r \in Requests |-> NoKwargs]
    /\ attempt_number = [r \in Requests |-> 0]
    /\ attempts = [r \in Requests |-> <<>>]
    /\ slept = [r \in Requests |-> <<>>]
    /\ ret = [r \in Requests |-> NoRet]
    /\ obj = [r \in Requests |-> NoObj]
    /\ txMeetings = [r \in Requests |-> NoWrites]
    /\ txItems = [r \in Requests |-> <<>>]
    /\ txState = [r \in Requests |-> "active"]
    /\ pre = [r \in Requests |-> None]

IdleState ==
    /\ IdleRequests
    /\ dbMeetings = [id \in MeetingIds |-> Absent]
    /\ dbItems = <<>>

\* No LLMService has been constructed yet.
NoService == _instance = FALSE /\ _provider = 0 /\ adapters = <<>>

LLMStep(r) ==
    \/ generate_completion(r)
    \/ \E outcome \in BackendOutcomes : backend_reply(r, outcome)
    \/ retry_sleep(r)
    \/ generate_json(r)
    \/ generate_json_parse(r)

\* The LLM service under its direct callers, one call at a time.
SdkChoices == {"client", "ImportError", "SDKError"}
ConfiguredKeys == ApiKeys \ {""}

\* The service has been constructed with the default provider and a key.
InitLLM ==
    /\ settings \in Settings(MaxAttemptsLLM, {LLM_PROVIDER}, ConfiguredKeys,
                              {AZURE_OPENAI_ENDPOINT})
    /\ IdleState
    /\ _instance = TRUE /\ _provider = 1 /\ adapters = <<"AzureOpenAIProvider">>

NextLLM ==
    \E r \in Requests :
        \/ Sequential(r) /\ \E mt \in MaxTokensArgs, t \in TemperatureArgs, jm \in BOOLEAN :
                          call_generate_completion(r, mt, t, jm)
        \/ Sequential(r) /\ \E mt \in MaxTokensArgs, t \in TemperatureArgs :
                          call_generate_json(r, mt, t)
        \/ LLMStep(r)
        \/ llm_call_returns(r)

SpecLLM == InitLLM /\ [][NextLLM]_vars

FlushResults == {"ok", "SQLAlchemyError", "PendingRollbackError"}

\* The services over the storage, one request at a time.
Init ==
    /\ settings \in Settings(MaxAttempts, {LLM_PROVIDER, NAME_Gemini, NAME_empty}, ConfiguredKeys,
                              {AZURE_OPENAI_ENDPOINT})
    /\ IdleState
    /\ NoService

Next ==
    \E r \in Requests :
        \/ Sequential(r) /\ \E text \in OriginalTexts, participants \in ParticipantsChoices,
                              outcome \in FlushResults :
                          create_meeting(r, text, participants, outcome)
        \/ Sequential(r) /\ \E id \in 1..(MaxMeetings + 1), sdk \in SdkChoices :
                          start_generate_summary(r, id, sdk)
        \/ generate_summary_load(r)
        \/ \E outcome \in FlushResults : generate_summary_flush_processing(r, outcome)
        \/ generate_summary_store(r)
        \/ \E outcome \in FlushResults : generate_summary_flush_result(r, outcome)
        \/ \E outcome \in FlushResults : generate_summary_flush_revert(r, outcome)
        \/ Sequential(r) /\ \E id \in 1..(MaxMeetings + 1), sdk \in SdkChoices :
                          start_extract_action_items(r, id, sdk)
        \/ extract_action_items_load(r)
        \/ \E outcome \in FlushResults : extract_action_items_save(r, outcome)
        \/ LLMStep(r)
        \/ get_db(r)

Spec == Init /\ [][Next]_vars

\* The construction of the LLM service under every configuration, with
\* the provider name changing while the process runs.
InitConfig ==
    /\ settings \in Settings(1, ProviderNames, ApiKeys, Endpoints)
    /\ IdleState
    /\ NoService

NextConfig ==
    \E r \in Requests :
        \/ Sequential(r) /\ \E sdk \in SdkChoices : call_get_llm_service(r, sdk)
        \/ Sequential(r) /\ \E name \in ProviderNames : set_provider(name)
        \/ Sequential(r) /\ \E jm \in BOOLEAN : call_generate_completion(r, None, None, jm)
        \/ generate_completion(r)
        \/ \E outcome \in BackendOutcomes : backend_reply(r, outcome)
        \/ llm_call_returns(r)

SpecConfig == InitConfig /\ [][NextConfig]_vars

\* The endpoints and the services with requests in progress side by side,
\* each in its own session, under the default provider.
InitConcurrent ==
    /\ settings \in {s \in Settings(LLM_MAX_RETRIES, {LLM_PROVIDER}, ConfiguredKeys,
                                     {AZURE_OPENAI_ENDPOINT}) :
                        /\ s.LLM_MAX_RETRIES = 2
                        /\ s.LLM_TEMPERATURE = LLM_TEMPERATURE}
    /\ IdleState
    /\ NoService

\* A text with content for the meetings of the requests side by side.
ConcurrentTexts == {t \in OriginalTexts : ~NoContent(t)}

\* The backend's answers to the service call beside the endpoint requests:
\* a summary, action items, or a rate-limit error.
ConcurrentAnswers ==
    {[kind |-> "text", text |-> R_full], [kind |-> "text", text |-> R_items],
     [kind |-> "raise", exc |-> "RateLimitError"]}

\* Request q's coroutine has the event loop: it runs code that does not
\* suspend, or it is inside the SDK's synchronous client call
\* (self.client...create(**kwargs) is not awaited), which returns only
\* when the backend has answered.
HoldsEventLoop(q) ==
    pc[q] \in {"generate_json", "generate_completion", "backend", "completion_done"}

\* The event loop can run request r: no other request holds it.
CanRun(r) == \A q \in Requests \ {r} : ~HoldsEventLoop(q)

\* No other request is inside a service call.
OnlyServiceCall(r) ==
    \A q \in Requests \ {r} : call[q].op \notin {"generate_summary", "extract_action_items"}

\* A service call with requests to the endpoints beside it.
NextConcurrent ==
    \E r \in Requests :
        \/ CanRun(r) /\ \E text \in ConcurrentTexts, participants \in ParticipantsChoices,
                              outcome \in FlushResults :
                          create_meeting(r, text, participants, outcome)
        \/ CanRun(r) /\ \E id \in MeetingIds, outcome \in FlushResults :
                          delete_meeting(r, id, outcome)
        \/ CanRun(r) /\ \E id \in MeetingIds : get_summary_status(r, id)
        \/ CanRun(r) /\ OnlyServiceCall(r)
                     /\ \E id \in MeetingIds : start_generate_summary(r, id, "client")
        \/ CanRun(r) /\ generate_summary_load(r)
        \/ CanRun(r) /\ \E outcome \in FlushResults :
                          generate_summary_flush_processing(r, outcome)
        \/ CanRun(r) /\ generate_summary_store(r)
        \/ CanRun(r) /\ \E outcome \in FlushResults : generate_summary_flush_result(r, outcome)
        \/ CanRun(r) /\ \E outcome \in FlushResults : generate_summary_flush_revert(r, outcome)
        \/ CanRun(r) /\ OnlyServiceCall(r)
                     /\ \E id \in MeetingIds : start_extract_action_items(r, id, "client")
        \/ CanRun(r) /\ extract_action_items_load(r)
        \/ CanRun(r) /\ \E outcome \in FlushResults : extract_action_items_save(r, outcome)
        \/ generate_json(r)
        \/ generate_completion(r)
        \/ \E outcome \in ConcurrentAnswers : backend_reply(r, outcome)
        \/ CanRun(r) /\ retry_sleep(r)
        \/ generate_json_parse(r)
        \/ CanRun(r) /\ get_db(r)

SpecConcurrent == InitConcurrent /\ [][NextConcurrent]_vars

\* The backend's answers to the summary calls side by side: one of three
\* summaries, or a rate-limit error.
SummaryTexts == {R_full, R_short, R_other}

SummaryAnswers ==
    {[kind |-> "text", text |-> t] : t \in SummaryTexts}
        \cup {[kind |-> "raise", exc |-> "RateLimitError"]}

\* generate_summary calls side by side on the meetings created before.
NextSummaries ==
    \E r \in Requests :
        \/ Sequential(r) /\ \E text \in ConcurrentTexts, participants \in ParticipantsChoices,
                                  outcome \in FlushResults :
                              create_meeting(r, text, participants, outcome)
        \/ CanRun(r) /\ \E id \in MeetingIds : start_generate_summary(r, id, "client")
        \/ CanRun(r) /\ generate_summary_load(r)
        \/ CanRun(r) /\ \E outcome \in FlushResults :
                          generate_summary_flush_processing(r, outcome)
        \/ CanRun(r) /\ generate_summary_store(r)
        \/ CanRun(r) /\ \E outcome \in FlushResults : generate_summary_flush_result(r, outcome)
        \/ CanRun(r) /\ \E outcome \in FlushResults : generate_summary_flush_revert(r, outcome)
        \/ generate_json(r)
        \/ generate_completion(r)
        \/ \E outcome \in SummaryAnswers : backend_reply(r, outcome)
        \/ CanRun(r) /\ retry_sleep(r)
        \/ generate_json_parse(r)
        \/ CanRun(r) /\ get_db(r)

SpecSummaries == InitConcurrent /\ [][NextSummaries]_vars

\* The endpoints that write, one request after the other.
LifecycleAnswers ==
    {[kind |-> "text", text |-> R_full], [kind |-> "text", text |-> R_items],
     [kind |-> "text", text |-> R_prose], [kind |-> "raise", exc |-> "RateLimitError"]}

NextLifecycle ==
    \E r \in Requests :
        \/ Sequential(r) /\ \E text \in OriginalTexts, participants \in ParticipantsChoices,
                                  outcome \in FlushResults :
                              create_meeting(r, text, participants, outcome)
        \/ Sequential(r) /\ \E id \in MeetingIds, update_data \in UpdateBodies,
                                outcome \in FlushResults :
                              update_meeting(r, id, update_data, outcome)
        \/ Sequential(r) /\ \E id \in MeetingIds, outcome \in FlushResults :
                              delete_meeting(r, id, outcome)
        \/ Sequential(r) /\ \E id \in MeetingIds : get_meeting_endpoint(r, id)
        \/ Sequential(r) /\ \E id \in MeetingIds : start_generate_summary(r, id, "client")
        \/ generate_summary_load(r)
        \/ \E outcome \in FlushResults : generate_summary_flush_processing(r, outcome)
        \/ generate_summary_store(r)
        \/ \E outcome \in FlushResults : generate_summary_flush_result(r, outcome)
        \/ \E outcome \in FlushResults : generate_summary_flush_revert(r, outcome)
        \/ Sequential(r) /\ \E id \in MeetingIds : start_extract_action_items(r, id, "client")
        \/ extract_action_items_load(r)
        \/ \E outcome \in FlushResults : extract_action_items_save(r, outcome)
        \/ generate_json(r)
        \/ generate_completion(r)
        \/ \E outcome \in LifecycleAnswers : backend_reply(r, outcome)
        \/ retry_sleep(r)
        \/ generate_json_parse(r)
        \/ get_db(r)

SpecLifecycle == InitConcurrent /\ [][NextLifecycle]_vars

\* The texts a structured column can hold when it is read: null, empty text,
\* text that is no JSON, JSON that is no array, and JSON arrays.
StoredTexts ==
    {None, Some(<<>>), Some(R_prose), Some(R_short), Some(<<S("A")>>),
     Some(Array(<<>>)), Some(Array(<<"A", "B">>)),
     Some(<<P("["), W("null"), P("]")>>), Some(<<P("["), S("A"), P(","), N(1), P("]")>>)}

\* Reading the stored meetings.
InitRead ==
    /\ settings \in {s \in Settings(LLM_MAX_RETRIES, {LLM_PROVIDER}, ConfiguredKeys,
                                     {AZURE_OPENAI_ENDPOINT}) :
                        /\ s.LLM_MAX_RETRIES = LLM_MAX_RETRIES
                        /\ s.LLM_TEMPERATURE = LLM_TEMPERATURE}
    /\ IdleRequests
    /\ NoService
    /\ dbItems = <<>>
    /\ \E topics, decisions, discussion_points \in StoredTexts :
          dbMeetings = [id \in MeetingIds |->
              [NewMeeting(Some(<<"h", "i">>)) EXCEPT
                  !.topics = topics, !.decisions = decisions,
                  !.discussion_points = discussion_points]]

NextRead ==
    \E r \in Requests :
        \/ \E id \in MeetingIds : get_meeting_endpoint(r, id)
        \/ \E id \in MeetingIds : get_summary_status(r, id)
        \/ get_db(r)

SpecRead == InitRead /\ [][NextRead]_vars

\* The Anthropic adapter called with every list of messages.
InitAnthropic ==
    /\ settings \in {s \in Settings(LLM_MAX_RETRIES, {NAME_anthropic}, ConfiguredKeys,
                                     {AZURE_OPENAI_ENDPOINT}) :
                        /\ s.LLM_MAX_RETRIES = 2
                        /\ s.LLM_TEMPERATURE = LLM_TEMPERATURE}
    /\ IdleState
    /\ NoService

NextAnthropic ==
    \E r \in Requests :
        \/ Sequential(r) /\ \E messages \in MessageLists, json_mode \in BOOLEAN :
                              AnthropicProvider_generate_completion(r, messages, json_mode)
        \/ \E outcome \in SummaryAnswers : backend_reply(r, outcome)
        \/ retry_sleep(r)
        \/ llm_call_returns(r)

SpecAnthropic == InitAnthropic /\ [][NextAnthropic]_vars

\* Summary generations, one request after the other, each step of a call
\* taken in the end: the event loop resumes a coroutine whose await is
\* over, the flushes and the delays between attempts end, and every backend
\* call is answered.
InitLive ==
    /\ settings \in {s \in Settings(MaxAttempts, {LLM_PROVIDER}, ConfiguredKeys,
                                     {AZURE_OPENAI_ENDPOINT}) :
                        s.LLM_TEMPERATURE = LLM_TEMPERATURE}
    /\ IdleState
    /\ NoService

LiveAnswers ==
    SummaryAnswers \cup {[kind |-> "text", text |-> R_prose], [kind |-> "raise", exc |-> "APIError"]}

backend_answers(r) == \E outcome \in LiveAnswers : backend_reply(r, outcome)

flushes_processing(r) == \E outcome \in FlushResults : generate_summary_flush_processing(r, outcome)
flushes_result(r) == \E outcome \in FlushResults : generate_summary_flush_result(r, outcome)
flushes_revert(r) == \E outcome \in FlushResults : generate_summary_flush_revert(r, outcome)

NextLive ==
    \E r \in Requests :
        \/ Sequential(r) /\ \E text \in OriginalTexts, participants \in ParticipantsChoices,
                                  outcome \in FlushResults :
                              create_meeting(r, text, participants, outcome)
        \/ Sequential(r) /\ \E id \in MeetingIds : start_generate_summary(r, id, "client")
        \/ generate_summary_load(r)
        \/ flushes_processing(r)
        \/ generate_summary_store(r)
        \/ flushes_result(r)
        \/ flushes_revert(r)
        \/ generate_json(r)
        \/ generate_completion(r)
        \/ backend_answers(r)
        \/ retry_sleep(r)
        \/ generate_json_parse(r)
        \/ get_db(r)

\* A step of the call request r is serving; the position of the call
\* decides which one it is.
CallStep(r) ==
    \/ generate_summary_load(r)
    \/ flushes_processing(r)
    \/ generate_summary_store(r)
    \/ flushes_result(r)
    \/ flushes_revert(r)
    \/ generate_json(r)
    \/ generate_completion(r)
    \/ backend_answers(r)
    \/ retry_sleep(r)
    \/ generate_json_parse(r)

Fairness == \A r \in Requests : WF_vars(CallStep(r))

SpecLive == InitLive /\ [][NextLive]_vars /\ Fairness

-----------------------------------------------------------------------------
(* Properties of the summary and extraction services *)

ContentFields == {"summary", "topics", "decisions", "discussion_points"}

\* A text that is null, empty or made of whitespace only.
Blank(original_text) ==
    IsNone(original_text)
        \/ \A i \in 1..Len(original_text.some) : original_text.some[i] \in Whitespace

IsSummaryCall(r) == call[r].op = "generate_summary"
IsExtractCall(r) == call[r].op = "extract_action_items"

\* The call of request r is over: it returned or raised.
Over(r) == pc[r] \in {"returned", "raised"}

\* The call of request r is past the load of its meeting.
PastLoad(r) == pc[r] \notin {"idle", "summary_load", "extract_load"}

\* The meeting of request r's call as the tables had it when the call began.
MeetingBefore(r) ==
    IF call[r].meeting_id \in MeetingIds THEN pre[r].meetings[call[r].meeting_id] ELSE Absent

\* The call made no LLM call and wrote nothing.
NothingDone(r) ==
    /\ ~kwargs[r].sent
    /\ attempts[r] = <<>>
    /\ txItems[r] = <<>>
    /\ txMeetings[r] = NoWrites
    /\ dbMeetings = pre[r].meetings
    /\ dbItems = pre[r].items

\* C1: when a generate_summary call on a stored meeting with non-blank text
\* is over, whatever the LLM call gave, the meeting's status is not
\* processing; it is completed if the call returned and draft if it raised
\* (the latter for the calls in which no write to the storage failed).
C1_StatusSettled ==
    \A r \in Requests :
        (/\ IsSummaryCall(r) /\ Over(r)
         /\ MeetingBefore(r).stored
         /\ ~Blank(MeetingBefore(r).original_text))
            => /\ obj[r].loaded
               /\ obj[r].row.status # "processing"
               /\ TxRow(r, obj[r].id).status # "processing"
               /\ txState[r] = "active" =>
                     /\ obj[r].row.status =
                           (IF pc[r] = "returned" THEN "completed" ELSE "draft")
                     /\ TxRow(r, obj[r].id).status = obj[r].row.status

\* C1 witness: a completed meeting's regeneration raised after a rate-limit
\* failure and an answer that was not accepted.
C1_Witness ==
    \E r \in Requests :
        /\ IsSummaryCall(r) /\ pc[r] = "raised"
        /\ MeetingBefore(r).stored /\ MeetingBefore(r).status = "completed"
        /\ attempts[r] = <<"LLMRateLimitError", "ok">>
        /\ txState[r] = "active"
        /\ obj[r].row.status = "draft"

\* The stored text decodes to the list of strings xs.
DecodesTo(stored, xs) ==
    /\ ~IsNone(stored)
    /\ LET v == json_loads(stored.some) IN
       v.ok /\ IsListOfStr(v.val) /\ StrItems(v.val) = xs

\* The list the response gives under key, [] when it gives none.
ResponseList(response, key) ==
    IF HasKey(response, key) THEN StrItems(DictGet(response, key)) ELSE <<>>

\* C2: when generate_summary returns, the meeting's status is completed, its
\* summary is the response's summary, and topics, decisions and
\* discussion_points are non-null and decode to the response's lists.
C2_ResultsStored ==
    \A r \in Requests :
        (IsSummaryCall(r) /\ pc[r] = "returned")
            => LET response == pre[r].response.val
                   row == obj[r].row IN
               /\ row.status = "completed"
               /\ row.summary = Some(DictGet(response, "summary").s)
               /\ DecodesTo(row.topics, ResponseList(response, "topics"))
               /\ DecodesTo(row.decisions, ResponseList(response, "decisions"))
               /\ DecodesTo(row.discussion_points, ResponseList(response, "discussion_points"))
               /\ \A f \in Columns : TxRow(r, obj[r].id)[f] = row[f]

\* C2 witness: a call returned on a response with an empty decisions list.
C2_Witness ==
    \E r \in Requests :
        /\ IsSummaryCall(r) /\ pc[r] = "returned"
        /\ ResponseList(pre[r].response.val, "topics") = <<"A", "B">>
        /\ HasKey(pre[r].response.val, "decisions")
        /\ ResponseList(pre[r].response.val, "decisions") = <<>>

NoContentError(r) ==
    IF IsSummaryCall(r) THEN Raise("SummaryGenerationError")
    ELSE Raise("ActionItemExtractionError")

\* C4: on a stored meeting whose original_text is null, empty or whitespace,
\* generate_summary and extract_action_items raise their no-content error,
\* make no LLM call, create no ActionItem and change nothing.
C4_NoContentRefused ==
    \A r \in Requests :
        (/\ IsSummaryCall(r) \/ IsExtractCall(r)
         /\ PastLoad(r)
         /\ MeetingBefore(r).stored
         /\ Blank(MeetingBefore(r).original_text))
            => /\ pc[r] = "raised"
               /\ ret[r] = NoContentError(r)
               /\ NothingDone(r)
               /\ obj[r].row = MeetingBefore(r)

\* C4 witness: an extraction was refused on a whitespace-only text.
C4_WitnessExtract ==
    \E r \in Requests :
        /\ IsExtractCall(r) /\ pc[r] = "raised"
        /\ MeetingBefore(r).stored
        /\ MeetingBefore(r).original_text = Some(<<" ", "\n">>)

\* C5: for a meeting_id that is not stored, generate_summary and
\* extract_action_items raise MeetingNotFoundError, make no LLM call and
\* change nothing; the generate-summary endpoint answers it with 404 and a
\* SummaryGenerationError with 500.
C5_NotFound ==
    \A r \in Requests :
        /\ (/\ IsSummaryCall(r) \/ IsExtractCall(r)
            /\ PastLoad(r)
            /\ ~MeetingBefore(r).stored)
              => /\ pc[r] = "raised"
                 /\ ret[r] = Raise("MeetingNotFoundError")
                 /\ NothingDone(r)
                 /\ ~obj[r].loaded
        /\ (IsSummaryCall(r) /\ pc[r] = "raised")
              => /\ ret[r].exc = "MeetingNotFoundError" <=> ~MeetingBefore(r).stored
                 /\ generate_meeting_summary(ret[r]) = 404 <=> ~MeetingBefore(r).stored
                 /\ ret[r].exc = "SummaryGenerationError"
                       => generate_meeting_summary(ret[r]) = 500

\* C5 witness: an extraction on an id that was never stored was refused while
\* another meeting is stored.
C5_Witness ==
    \E r \in Requests :
        /\ IsExtractCall(r) /\ pc[r] = "raised"
        /\ ~MeetingBefore(r).stored
        /\ \E id \in MeetingIds : dbMeetings[id].stored

-----------------------------------------------------------------------------
(* Properties of the construction of the LLM service *)

\* The adapter class the configured provider name stands for, "None" for an
\* unknown name.
ConfiguredClass == provider_map(lower(settings.LLM_PROVIDER))

\* Request r has just been given the result of LLMService().
Constructed(r) == pc[r] = "constructed"

\* C11, in every state: at most one adapter has ever been constructed, the
\* service holds none or that one, and every backend call is served by it.
C11_State ==
    /\ Len(adapters) <= 1
    /\ _provider \in {0, 1}
    /\ _provider = Len(adapters)
    /\ \A r \in Requests : kwargs[r].sent => kwargs[r].adapter = 1

\* C11, in every step: once the service has its adapter, no step changes it
\* or constructs another, and every construction gives the service.
C11_Step ==
    _provider # 0 =>
        /\ _provider' = _provider
        /\ adapters' = adapters
        /\ \A r \in Requests :
              (~Constructed(r) /\ Constructed(r)') => ret'[r] = [kind |-> "service"]

\* C11: after the first successful construction of LLMService every later
\* LLMService() or get_llm_service() gives a service with the same adapter;
\* the adapter is constructed once, also when the provider name changes.
C11_OneAdapter == [](C11_State) /\ [][C11_Step]_vars

\* C11 witness: a backend call is served by the first adapter while the
\* configuration names another adapter class.
C11_Witness ==
    \E r \in Requests :
        /\ pc[r] = "backend"
        /\ kwargs[r].adapter = 1
        /\ ConfiguredClass # "None"
        /\ ConfiguredClass # adapters[1]

\* Request r asked for a summary or for an extraction: it constructed, or
\* failed to construct, one of the two services.
IsServiceRequest(r) ==
    call[r].op \in {"MeetingSummaryService", "generate_summary",
                    "ActionItemExtractionService", "extract_action_items"}

\* The configured provider name is, in lower case, none of the three names
\* the service knows.
UnknownName ==
    lower(settings.LLM_PROVIDER) \notin {NAME_anthropic, NAME_openai, NAME_azure_openai}

\* C12: with a provider name that is, in lower case, none of anthropic,
\* openai, azure_openai, no adapter is ever created, and every
\* generate_summary or extract_action_items request fails with LLMError
\* before its meeting is read or written.
C12_UnknownProvider ==
    UnknownName =>
        /\ _provider = 0
        /\ adapters = <<>>
        /\ \A r \in Requests :
              IsServiceRequest(r)
                  => /\ pc[r] = "raised"
                     /\ ret[r] = Raise("LLMError")
                     /\ NothingDone(r)
                     /\ ~obj[r].loaded

\* C12 witness: a summary request on a stored meeting failed on the
\* construction, after an earlier construction attempt.
C12_Witness ==
    \E r \in Requests :
        /\ call[r].op = "MeetingSummaryService" /\ pc[r] = "raised"
        /\ settings.LLM_PROVIDER = NAME_Gemini
        /\ MeetingBefore(r).stored
        /\ ret[r] = Raise("LLMError")

\* C13: with an empty API key no adapter is constructed, with a missing
\* endpoint no Azure adapter is; the construction fails with LLMError, and
\* no backend call is ever made with an empty key.
C13_MissingCredentialsFailFast ==
    /\ settings.LLM_API_KEY = "" => adapters = <<>>
    /\ EndpointMissing => \A i \in 1..Len(adapters) : adapters[i] # "AzureOpenAIProvider"
    /\ \A r \in Requests :
          /\ (Constructed(r) /\ Raised(ret[r])) => ret[r] = Raise("LLMError")
          /\ kwargs[r].sent => settings.LLM_API_KEY # ""

-----------------------------------------------------------------------------
(* Properties of the two services' failures *)

\* C14: once the service exists, a generate_summary call that raises, raises
\* MeetingNotFoundError or SummaryGenerationError, and an
\* extract_action_items call that raises, raises MeetingNotFoundError or
\* ActionItemExtractionError, whatever failed: the LLM call, the parsing, the
\* validation or a write to the storage.
C14_OnlyServiceErrors ==
    \A r \in Requests :
        /\ (IsSummaryCall(r) /\ pc[r] = "raised")
              => ret[r].exc \in {"MeetingNotFoundError", "SummaryGenerationError"}
        /\ (IsExtractCall(r) /\ pc[r] = "raised")
              => ret[r].exc \in {"MeetingNotFoundError", "ActionItemExtractionError"}

-----------------------------------------------------------------------------
(* Properties of extract_action_items *)

\* The items of the validated response of request r's extraction.
ValidatedItems(r) == ActionItemsExtractionOutput(pre[r].response.val).action_items

\* The due date stored for a due_date text: the date of a YYYY-MM-DD text,
\* null for any other text and for none.
StoredDate(due_date) ==
    IF ~IsNone(due_date) /\ due_date.some \in ValidDates THEN due_date ELSE None

\* C15: when extract_action_items returns on a validated response of n
\* items, it returns n new ActionItems, the last n of its transaction, in the
\* response's order, each with status todo, the requested meeting_id and the
\* item's title, owner and priority; a due_date that is no YYYY-MM-DD date
\* is stored as null and leaves the other items as they are.
C15_ItemsCreated ==
    \A r \in Requests :
        (IsExtractCall(r) /\ pc[r] = "returned")
            => LET items == ValidatedItems(r)
                   n == Len(items)
                   created == ret[r].items IN
               /\ Len(created) = n
               /\ Len(txItems[r]) >= n
               /\ created = SubSeq(txItems[r], Len(txItems[r]) - n + 1, Len(txItems[r]))
               /\ \A i \in 1..n :
                     /\ created[i].status = "todo"
                     /\ created[i].meeting_id = call[r].meeting_id
                     /\ created[i].title = items[i].title
                     /\ created[i].owner = items[i].owner
                     /\ created[i].priority = items[i].priority
                     /\ created[i].due_date = StoredDate(items[i].due_date)
               /\ \A i, j \in 1..n : i < j => created[i].id < created[j].id

\* C15 witness: an extraction returned two items, the first with its date,
\* the second with a null due_date for the text "next Friday".
C15_Witness ==
    \E r \in Requests :
        /\ IsExtractCall(r) /\ pc[r] = "returned"
        /\ Len(ret[r].items) = 2
        /\ ret[r].items[1].due_date = Some("2024-01-15")
        /\ ValidatedItems(r)[2].due_date = Some("next Friday")
        /\ ret[r].items[2].due_date = None

HasItemList(response) ==
    /\ response.t = "dict"
    /\ HasKey(response, "action_items")
    /\ DictGet(response, "action_items").t = "list"
    /\ \A i \in 1..Len(DictGet(response, "action_items").items) :
          DictGet(response, "action_items").items[i].t = "dict"

\* Some item of the response lacks one of the keys.
SomeItemLacks(response, keys) ==
    \E i \in 1..Len(DictGet(response, "action_items").items) :
        \E k \in keys : ~HasKey(DictGet(response, "action_items").items[i], k)

\* C17: a response in which an item lacks title, owner or priority is
\* refused with ActionItemExtractionError and creates no ActionItem.
C17_RequiredKeys ==
    \A r \in Requests :
        (/\ IsExtractCall(r) /\ Over(r)
         /\ pre[r].response.kind = "value"
         /\ HasItemList(pre[r].response.val)
         /\ SomeItemLacks(pre[r].response.val, {"title", "owner", "priority"}))
            => /\ pc[r] = "raised"
               /\ ret[r] = Raise("ActionItemExtractionError")
               /\ txItems[r] = <<>>

\* C18: every stored ActionItem, committed or flushed, has a priority among
\* high, medium, low and a status among todo, in_progress, done, cancelled.
C18_PriorityAndStatus ==
    \A r \in Requests :
        \A i \in 1..Len(dbItems \o txItems[r]) :
            LET item == (dbItems \o txItems[r])[i] IN
            /\ item.priority \in {"high", "medium", "low"}
            /\ item.status \in {"todo", "in_progress", "done", "cancelled"}

-----------------------------------------------------------------------------
(* Properties of requests in progress side by side *)

\* C19: every stored ActionItem references a stored Meeting, also when
\* delete_meeting is committed between the load and the save of an
\* extract_action_items call on the same meeting.
C19_ItemsHaveMeeting ==
    \A i \in 1..Len(dbItems) :
        /\ dbItems[i].meeting_id \in MeetingIds
        /\ dbMeetings[dbItems[i].meeting_id].stored

\* Request r's generate_summary call is waiting for the LLM: its request is
\* with the backend, or it sleeps before the next attempt.
WaitingForLLM(r) == IsSummaryCall(r) /\ pc[r] \in {"backend", "sleep"}

\* C20, in every step: a get_summary_status read of a meeting by one request
\* while another request's generate_summary call on that meeting waits for
\* the LLM answers with status processing.
C20_Step ==
    \A r, q \in Requests :
        (/\ r # q
         /\ WaitingForLLM(r)
         /\ pc[q] = "idle" /\ pc'[q] = "returned"
         /\ call'[q] = [op |-> "get_summary_status", meeting_id |-> call[r].meeting_id])
            => ret'[q].status = "processing"

\* C20: while generate_summary waits for the LLM response, a concurrent read
\* of the same meeting by another request observes status processing.
C20_ReaderSeesProcessing == [][C20_Step]_vars

\* The three lists of a stored meeting are those of the one response text.
ListsFrom(row, text) ==
    LET response == json_loads(text).val IN
    /\ DecodesTo(row.topics, ResponseList(response, "topics"))
    /\ DecodesTo(row.decisions, ResponseList(response, "decisions"))
    /\ DecodesTo(row.discussion_points, ResponseList(response, "discussion_points"))

\* C22: in every reachable state of generate_summary calls side by side, a
\* stored meeting's topics, decisions and discussion_points are all null or
\* are all the lists of one single response the backend gave.
C22_ListsOfOneGeneration ==
    \A id \in MeetingIds :
        dbMeetings[id].stored =>
            \/ /\ IsNone(dbMeetings[id].topics)
               /\ IsNone(dbMeetings[id].decisions)
               /\ IsNone(dbMeetings[id].discussion_points)
            \/ \E text \in SummaryTexts : ListsFrom(dbMeetings[id], text)

\* A generate_summary call for the meeting is in flight.
SummaryInFlight(id) ==
    \E r \in Requests : IsSummaryCall(r) /\ call[r].meeting_id = id /\ pc[r] # "idle"

\* C23: in every state reachable by create_meeting, update_meeting,
\* delete_meeting, generate_summary and extract_action_items, a meeting
\* whose stored status is processing has a generate_summary call in flight.
C23_ProcessingOnlyInFlight ==
    \A id \in MeetingIds :
        (dbMeetings[id].stored /\ dbMeetings[id].status = "processing")
            => SummaryInFlight(id)

ListColumns == {"topics", "decisions", "discussion_points"}

\* C24: for every stored text of topics, decisions and discussion_points,
\* reading the meeting through MeetingResponse does not raise, and a column
\* whose text is not valid JSON reads as the empty list through topics_list
\* and through MeetingResponse.
C24_ReadNeverRaises ==
    \A r \in Requests :
        (call[r].op = "get_meeting" /\ Over(r) /\ obj[r].loaded)
            => /\ ~Raised(ret[r])
               /\ \A f \in ListColumns :
                     (~IsNone(obj[r].row[f]) /\ ~json_loads(obj[r].row[f].some).ok)
                        => /\ topics_list(obj[r].row[f]) = JList(<<>>)
                           /\ ret[r][f] = <<>>

\* The pieces of a text that are not separators, [] for no text.
Separators == {"", " ", "\n", "\n\n"}
IsWord(piece) == piece \notin Separators
Words(text) == IF IsNone(text) THEN <<>> ELSE SelectSeq(text.some, IsWord)

RECURSIVE Contents(_)
\* The contents of the messages one after the other.
Contents(messages) ==
    IF messages = <<>> THEN <<>> ELSE Head(messages).content \o Contents(Tail(messages))

\* An adapter call with several system messages has sent its request.
SeveralSystemMessages(r) ==
    /\ "messages" \in DOMAIN call[r]
    /\ kwargs[r].sent
    /\ Len(SelectSeq(call[r].messages, IsSystem)) >= 2

\* C25: when the Anthropic adapter is given several system messages, the
\* system instruction it sends is the merge of all of them or the first of
\* them, with the JSON-only instruction appended when json_mode is true,
\* and the other messages are sent in their order.
C25_SystemMergedOrFirst ==
    \A r \in Requests :
        SeveralSystemMessages(r) =>
            LET systems == SelectSeq(call[r].messages, IsSystem)
                instruction == IF call[r].json_mode THEN <<JSON_ONLY>> ELSE <<>>
            IN /\ kwargs[r].messages = SelectSeq(call[r].messages, NotSystem)
               /\ \/ Words(kwargs[r].system) = Words(Some(Contents(systems))) \o instruction
                  \/ Words(kwargs[r].system) = Words(Some(systems[1].content)) \o instruction

\* While a generate-summary request is being served the tables are those
\* from before it.
C26_State ==
    \A r \in Requests :
        (IsSummaryCall(r) /\ pc[r] # "idle") => dbMeetings = pre[r].meetings

\* The end of a generate-summary request that failed leaves the tables as
\* they were before it.
C26_Step ==
    \A r \in Requests :
        (IsSummaryCall(r) /\ pc[r] = "raised" /\ pc'[r] = "idle")
            => dbMeetings' = pre[r].meetings

\* C26: when a generate-summary request fails, its unit of work is rolled
\* back: the committed meeting row after the request is the committed row
\* before it in every field, status included, and the intermediate
\* processing and draft are never committed.
C26_FailedRequestRolledBack == [](C26_State) /\ [][C26_Step]_vars

\* C26 witness: the regeneration of a completed meeting has failed, its
\* session holds the reverted status draft, and the committed row is still
\* completed.
C26_Witness ==
    \E r \in Requests :
        /\ IsSummaryCall(r) /\ pc[r] = "raised"
        /\ attempts[r] # <<>>
        /\ MeetingBefore(r).stored /\ MeetingBefore(r).status = "completed"
        /\ TxRow(r, call[r].meeting_id).status = "draft"
        /\ dbMeetings[call[r].meeting_id].status = "completed"

\* The row of the call's meeting holds the results of the call's response.
HoldsResultsOf(row, r) ==
    LET response == pre[r].response.val IN
    /\ row.status = "completed"
    /\ row.summary = Some(DictGet(response, "summary").s)
    /\ DecodesTo(row.topics, ResponseList(response, "topics"))
    /\ DecodesTo(row.decisions, ResponseList(response, "decisions"))
    /\ DecodesTo(row.discussion_points, ResponseList(response, "discussion_points"))

\* The end of a generate_summary call beside another one: a call that
\* failed leaves the stored meetings as they are, whatever it flushed, and
\* the call that succeeded, the only one to succeed on the meeting so far,
\* leaves the meeting completed with the results of its response.
C27_Step ==
    \A r \in Requests :
        (IsSummaryCall(r) /\ Over(r) /\ pc'[r] = "idle")
            => IF pc[r] = "raised"
               THEN dbMeetings' = dbMeetings
               ELSE IsNone(dbMeetings[call[r].meeting_id].summary)
                        => HoldsResultsOf(dbMeetings'[call[r].meeting_id], r)

\* C27: for every interleaving of two generate_summary calls on the same
\* meeting in which one succeeds and the other fails, the stored meeting
\* ends completed with the successful call's summary, topics, decisions and
\* discussion_points; the failed call's revert to draft is never stored
\* over them.
C27_SuccessNotOverwritten == [][C27_Step]_vars

\* C27 witness: a call that began on the draft meeting has failed after the
\* LLM call and has flushed its revert to draft, while the other call's
\* completed results are the committed row.
C27_Witness ==
    \E r \in Requests :
        /\ IsSummaryCall(r) /\ pc[r] = "raised"
        /\ attempts[r] # <<>>
        /\ MeetingBefore(r).stored /\ MeetingBefore(r).status = "draft"
        /\ "status" \in DOMAIN txMeetings[r][call[r].meeting_id]
        /\ txMeetings[r][call[r].meeting_id].status = "draft"
        /\ dbMeetings[call[r].meeting_id].status = "completed"

\* The rows of the meetings as stored and as every request's session sees them.
RowsSeen ==
    {dbMeetings[id] : id \in MeetingIds}
        \cup {TxRow(r, id) : r \in Requests, id \in MeetingIds}
        \cup {obj[r].row : r \in {q \in Requests : obj[q].loaded}}

\* The action items of meeting id, stored or added by a request.
ItemsOf(id) ==
    {i \in 1..Len(dbItems) : dbItems[i].meeting_id = id}
        \cup UNION {{i \in 1..Len(txItems[r]) : txItems[r][i].meeting_id = id} : r \in Requests}

\* C28: in every state reachable by create_meeting, generate_summary and
\* extract_action_items, a meeting just created has status draft, null
\* summary, topics, decisions and discussion_points and no action items,
\* and every meeting whose status is completed has all four non-null.
C28_Lifecycle ==
    /\ \A r \in Requests :
          (call[r].op = "create_meeting" /\ pc[r] = "returned")
              => /\ obj[r].row.status = "draft"
                 /\ \A f \in ContentFields : IsNone(obj[r].row[f])
                 /\ TxRow(r, obj[r].id) = obj[r].row
                 /\ ItemsOf(obj[r].id) = {}
    /\ \A row \in RowsSeen :
          (row.stored /\ row.status = "completed")
              => \A f \in ContentFields : ~IsNone(row[f])

\* C28 witness: the meeting that was created has been summarised and its
\* action items extracted; it is stored as completed.
C28_Witness ==
    \E id \in MeetingIds :
        /\ dbMeetings[id].stored /\ dbMeetings[id].status = "completed"
        /\ ~IsNone(dbMeetings[id].summary)
        /\ ItemsOf(id) # {}

\* C30: a meeting created with participants P is stored with original_text
\* and participants as the request gave them, reads back with them, and an
\* extract_action_items call on it builds its prompt with them.
C30_CreateStoresBody ==
    \A r \in Requests :
        /\ (call[r].op = "create_meeting" /\ pc[r] = "returned")
              => /\ obj[r].row.original_text = call[r].meeting.original_text
                 /\ obj[r].row.participants = call[r].meeting.participants
                 /\ TxRow(r, obj[r].id) = obj[r].row
        /\ (call[r].op = "get_meeting" /\ pc[r] = "returned")
              => /\ ret[r].original_text = dbMeetings[call[r].meeting_id].original_text
                 /\ ret[r].participants = dbMeetings[call[r].meeting_id].participants
        /\ (IsExtractCall(r) /\ "prompt" \in DOMAIN llmArgs[r])
              => /\ llmArgs[r].prompt.meeting_content = obj[r].row.original_text
                 /\ llmArgs[r].prompt.participants = obj[r].row.participants

\* The event loop serves a new status request in slot q.
serve_get_summary_status(q) ==
    CanRun(q) /\ \E id \in MeetingIds : get_summary_status(q, id)

\* Request r's LLM round trip is under way: its request is with the backend,
\* or it waits between two attempts.
InRoundTrip(r) == pc[r] \in {"backend", "sleep"}

\* C21: while the backend call of one request is outstanding, or the call
\* waits between retries, the process can serve a new request of another
\* client.
C21_OthersNotBlocked ==
    \A r, q \in Requests :
        (r # q /\ InRoundTrip(r) /\ pc[q] = "idle") => ENABLED serve_get_summary_status(q)

-----------------------------------------------------------------------------
(* Properties of the LLM service *)

\* The backend calls request r's generate_completion has made so far.
BackendCalls(r) == Len(attempts[r]) + (IF pc[r] = "backend" THEN 1 ELSE 0)

AllRateLimited(r) ==
    \A i \in 1..Len(attempts[r]) : attempts[r][i] = "LLMRateLimitError"

\* C6: within one generate_completion call the backend is called again only
\* after a rate-limit failure, at most LLM_MAX_RETRIES times in all, and an
\* attempt that fails with any other error is the last one.
C6_RetryOnlyOnRateLimit ==
    \A r \in Requests :
        /\ BackendCalls(r) <= settings.LLM_MAX_RETRIES
        /\ \A i \in 1..Len(attempts[r]) :
              attempts[r][i] # "LLMRateLimitError"
                  => i = Len(attempts[r]) /\ pc[r] \notin {"backend", "sleep"}
        /\ pc[r] \in {"backend", "sleep"} => AllRateLimited(r)

\* C6 witness: a later attempt failed with an API error and ended the call.
C6_Witness ==
    \E r \in Requests :
        /\ pc[r] = "completion_done"
        /\ settings.LLM_MAX_RETRIES = LLM_MAX_RETRIES
        /\ Len(attempts[r]) = LLM_MAX_RETRIES
        /\ attempts[r][1] = "LLMRateLimitError"
        /\ attempts[r][3] = "LLMAPIError"
        /\ ret[r] = Raise("LLMAPIError")

\* C7: when every attempt up to the configured maximum failed with a
\* rate-limit error, generate_completion raises LLMRateLimitError.
C7_ExhaustedRaisesRateLimit ==
    \A r \in Requests :
        (/\ pc[r] = "completion_done"
         /\ Len(attempts[r]) = settings.LLM_MAX_RETRIES
         /\ AllRateLimited(r))
            => ret[r] = Raise("LLMRateLimitError")

\* C8 as stated: every delay is larger than the one before it and none
\* exceeds the cap.
C8_DelaysStrictlyIncrease ==
    \A r \in Requests :
        /\ \A i \in 2..Len(slept[r]) : slept[r][i] > slept[r][i - 1]
        /\ \A i \in 1..Len(slept[r]) : slept[r][i] <= WAIT_MAX

\* C8 amended: no delay is smaller than the one before it, two successive
\* delays are equal only for the first two (both the 2 second minimum) or at
\* the cap, and none exceeds the cap.
C8_DelaysNeverDecrease ==
    \A r \in Requests :
        /\ \A i \in 2..Len(slept[r]) :
              /\ slept[r][i] >= slept[r][i - 1]
              /\ slept[r][i] = slept[r][i - 1] => i = 2 \/ slept[r][i] = WAIT_MAX
        /\ \A i \in 1..Len(slept[r]) : slept[r][i] <= WAIT_MAX

\* C8 witness: a call retried until the delay reached the cap.
C8_Witness ==
    \E r \in Requests :
        /\ Len(slept[r]) >= 7
        /\ slept[r][6] < WAIT_MAX
        /\ slept[r][7] = WAIT_MAX

IsServiceCall(r) == call[r].op \in {"generate_summary", "extract_action_items"}

\* C9: the adapter receives the caller's max_tokens and temperature whenever
\* they are given, 0 and 0.0 included, the configured defaults only when they
\* are omitted, and temperature 0.3 from the two services.
C9_ArgumentsPassedThrough ==
    \A r \in Requests :
        kwargs[r].sent =>
            /\ kwargs[r].max_tokens =
                  (IF IsNone(llmArgs[r].max_tokens) THEN settings.LLM_MAX_TOKENS
                   ELSE llmArgs[r].max_tokens.some)
            /\ kwargs[r].temperature =
                  (IF IsNone(llmArgs[r].temperature) THEN settings.LLM_TEMPERATURE
                   ELSE llmArgs[r].temperature.some)
            /\ IsServiceCall(r) => kwargs[r].temperature = 3

\* C10: generate_json calls the adapter with json_mode = true and, whatever
\* the adapter returns, returns the parsed value or raises
\* LLMResponseParseError.
C10_JsonOrParseError ==
    \A r \in Requests :
        /\ (call[r].op # "generate_completion" /\ kwargs[r].sent) => kwargs[r].json_mode
        /\ (/\ pc[r] = "json_done"
            /\ attempts[r][Len(attempts[r])] = "ok")
               => \/ ret[r].kind = "value"
                  \/ ret[r] = Raise("LLMResponseParseError")


\* The generate_summary call of request r has set status = processing and
\* is not over.
Processing(r) ==
    /\ IsSummaryCall(r) /\ ~Over(r)
    /\ obj[r].loaded /\ obj[r].row.status = "processing"

\* The call is over and its meeting is completed or draft.
Settled(r) ==
    /\ Over(r)
    /\ obj[r].loaded => obj[r].row.status \in {"completed", "draft"}

\* C29: a generate_summary call makes at most LLM_MAX_RETRIES backend
\* calls, and once it has set status = processing it returns or raises in
\* the end, every backend call being answered, with the status completed
\* or draft.
C29_GenerationEnds ==
    /\ [](\A r \in Requests : IsSummaryCall(r) => BackendCalls(r) <= settings.LLM_MAX_RETRIES)
    /\ \A r \in Requests : Processing(r) ~> Settled(r)

\* C29 witness: a call that set status = processing has raised after as
\* many rate-limited backend calls as the configuration allows, and its
\* meeting is draft again.
C29_Witness ==
    \E r \in Requests :
        /\ IsSummaryCall(r) /\ pc[r] = "raised"
        /\ settings.LLM_MAX_RETRIES = LLM_MAX_RETRIES
        /\ BackendCalls(r) = LLM_MAX_RETRIES
        /\ AllRateLimited(r)
        /\ obj[r].loaded /\ obj[r].row.status = "draft"
        /\ TxRow(r, obj[r].id).status = "draft"


=============================================================================
